---- MODULE Spec2Model ----
(***************************************************************************)
(* A model of the PUML decision tree (src/src/decisiontree.cpp) and of the *)
(* random forest evaluator (src/src/randomforest.cpp).                     *)
(*                                                                         *)
(* Numbers.  Feature values of the data are small naturals (a continuous   *)
(* value or a category index, as the feature's type says).  Values the     *)
(* code computes in floating point are kept exact:                         *)
(*   - a mean or a score is a rational [a, b] with b > 0;                 *)
(*   - a continuous feature value of a node is the real number            *)
(*       a/b + (h/2) * sqrt(q/m)        with h in {-1, 0, 1},              *)
(*     which is what mean, mean + std/2 and mean - std/2 are.             *)
(* Feature indices are 0-based as in the code; sequences are 1-based, so   *)
(* feature f of an instance is inst[f + 1].                                *)
(***************************************************************************)
EXTENDS Integers, Sequences, FiniteSets, TLC

\* ------------------------------------------------------------------ bounds
MaxVal == 2           \* feature values of the narrow datasets are 0..MaxVal
MaxInst == 3          \* instances of a dataset
MaxForestTrees == 3   \* trees of a forest
MaxDraws == 6         \* numbers drawn from rng_ before the last train call

\* ----------------------------------------------------------- generic helpers
RECURSIVE GCD(_, _)
GCD(x, y) == IF y = 0 THEN x ELSE GCD(y, x % y)

Abs(x) == IF x < 0 THEN -x ELSE x

\* rationals: [a |-> numerator, b |-> denominator > 0], in lowest terms
Rat(a, b) ==
  LET g == GCD(Abs(a), b) IN [a |-> a \div g, b |-> b \div g]

RZero == [a |-> 0, b |-> 1]
RAdd(x, y) == Rat(x.a * y.b + y.a * x.b, x.b * y.b)
RSub(x, y) == Rat(x.a * y.b - y.a * x.b, x.b * y.b)
RMul(x, y) == Rat(x.a * y.a, x.b * y.b)
RLess(x, y) == x.a * y.b < y.a * x.b

RECURSIVE SeqSum(_)
SeqSum(s) == IF s = <<>> THEN 0 ELSE Head(s) + SeqSum(Tail(s))

RECURSIVE SeqRSum(_)
SeqRSum(s) == IF s = <<>> THEN RZero ELSE RAdd(Head(s), SeqRSum(Tail(s)))

Range(s) == {s[i] : i \in DOMAIN s}

\* the column of feature f (0-based) of a dataset
Column(f, mld) == [i \in DOMAIN mld |-> mld[i][f + 1]]

\* ------------------------------------------------------------- feature values
\* ml_feature_value is a union of a float and an unsigned index; a value is
\* tagged here by the member the code wrote.
CV(a, b, h, q, m) == [kind |-> "continuous", a |-> a, b |-> b, h |-> h, q |-> q, m |-> m]
CVRat(r) == CV(r.a, r.b, 0, 0, 1)
DV(i) == [kind |-> "discrete", idx |-> i]
\* ml_feature_value empty = {} : every bit zero, 0.0 and index 0 at once
EmptyValue == [kind |-> "empty"]

\* The two members share their 32 bits, so the member that was not written
\* reads the bits of the one that was.
\* the float whose bits are those of the unsigned i, where it is no number
\* the exact values can hold (a subnormal, or an exponent out of their reach)
FloatWithBits(i) == [kind |-> "continuous", bits |-> i]
\* the unsigned whose bits are those of the float v, where they are not
\* computed (v negative or irrational)
UnsignedWithBitsOf(v) == [bits_of |-> v]

Pow2(k) == 2 ^ k

\* n / 2^t for the largest t with 2^t dividing n > 0, and t
RECURSIVE OddPart(_, _)
OddPart(n, t) == IF n % 2 = 0 THEN OddPart(n \div 2, t + 1) ELSE [n |-> n, t |-> t]

\* the float significand * 2^exponent, the significand odd and below 2^24
ScaledFloat(significand, exponent, i) ==
  IF exponent >= 0 /\ exponent <= 6 THEN CV(significand * Pow2(exponent), 1, 0, 0, 1)
  ELSE IF exponent < 0 /\ exponent >= -30 THEN CV(significand, Pow2(-exponent), 0, 0, 1)
  ELSE FloatWithBits(i)

\* the float with the bits of i, 0 <= i < 2^31: 8 bits of exponent biased by
\* 127 over 23 bits of fraction
BitsAsFloat(i) ==
  IF i = 0 THEN CV(0, 1, 0, 0, 1)
  ELSE IF i \div Pow2(23) = 0 \/ i \div Pow2(23) = 255 THEN FloatWithBits(i)
  ELSE ScaledFloat(OddPart(Pow2(23) + (i % Pow2(23)), 0).n,
                   OddPart(Pow2(23) + (i % Pow2(23)), 0).t + (i \div Pow2(23)) - 150, i)

\* n/d * 2^e = the value, with 1 <= n/d < 2
RECURSIVE Normalised(_, _, _)
Normalised(n, d, e) ==
  IF n < d THEN Normalised(2 * n, d, e - 1)
  ELSE IF n >= 2 * d THEN Normalised(n, 2 * d, e + 1)
  ELSE [n |-> n, d |-> d, e |-> e]

\* the long division of n by d to a significand of 24 bits, left bits to go
RECURSIVE Significand(_, _, _, _)
Significand(q, r, d, left) ==
  IF left = 0
  THEN IF 2 * r > d \/ (2 * r = d /\ q % 2 = 1) THEN q + 1 ELSE q
  ELSE IF 2 * r >= d THEN Significand(2 * q + 1, 2 * r - d, d, left - 1)
       ELSE Significand(2 * q, 2 * r, d, left - 1)

FloatBitsOf(nd) ==
  (nd.e + 127) * Pow2(23) + Significand(1, nd.n - nd.d, nd.d, 23) - Pow2(23)

\* the bits of the float nearest to a/b (ties to even)
FloatAsBits(v) ==
  IF v.h # 0 \/ v.a < 0 THEN UnsignedWithBitsOf(v)
  ELSE IF v.a = 0 THEN 0
  ELSE FloatBitsOf(Normalised(v.a, v.b, 0))

continuous_value(v) ==
  IF v.kind = "continuous" THEN v
  ELSE IF v.kind = "discrete" THEN BitsAsFloat(v.idx)
  ELSE CV(0, 1, 0, 0, 1)
discrete_value_index(v) ==
  IF v.kind = "discrete" THEN v.idx
  ELSE IF v.kind = "continuous" THEN FloatAsBits(v)
  ELSE 0

\* x < a/b + (h/2) * sqrt(q/m), for an integer x
IntLessThanCV(x, v) ==
  LET d == x * v.b - v.a
  IN  CASE v.h = 0  -> d < 0
        [] v.h = 1  -> d < 0 \/ 4 * d * d * v.m < v.q * v.b * v.b
        [] v.h = -1 -> d < 0 /\ 4 * d * d * v.m > v.q * v.b * v.b

\* x > a/b + (h/2) * sqrt(q/m), for an integer x
IntGreaterThanCV(x, v) ==
  LET d == x * v.b - v.a
  IN  CASE v.h = 0  -> d > 0
        [] v.h = 1  -> d > 0 /\ 4 * d * d * v.m > v.q * v.b * v.b
        [] v.h = -1 -> d > 0 \/ 4 * d * d * v.m < v.q * v.b * v.b

\* ------------------------------------------------- standard library behaviour
\* The distinct elements of s in the order of their first occurrence.
RECURSIVE FirstOccurrences(_)
FirstOccurrences(s) ==
  IF s = <<>> THEN <<>>
  ELSE LET front == FirstOccurrences(SubSeq(s, 1, Len(s) - 1))
           x == s[Len(s)]
       IN  IF x \in Range(front) THEN front ELSE Append(front, x)

Reverse(s) == [i \in 1..Len(s) |-> s[Len(s) + 1 - i]]

\* Iteration order of a std::unordered_set / std::unordered_map of ml_uint
\* keys after the keys of s were inserted in order.  The order is unspecified
\* by the language; the GNU library (identity hash, 13 buckets, a node that
\* opens a bucket goes to the front of the list) yields the keys in the
\* reverse order of their first insertion while there are fewer than 13 keys,
\* each below 13.
UnorderedIterationOrder(s) == Reverse(FirstOccurrences(s))

\* First outputs of std::mt19937 seeded with 1, 2, 3 and 4.  An output is a
\* 32-bit unsigned number, written << high 16 bits, low 16 bits >>.
MT19937 ==
  [seed \in {1, 2, 3, 4} |->
     IF seed = 1
     THEN <<
            <<27329, 62501>>, <<65351, 33003>>, <<47207, 12172>>, <<61116, 5192>>,
            <<7, 32511>>, <<8396, 50057>>, <<19813, 43723>>, <<65473, 7813>>,
            <<9617, 52047>>, <<15472, 21440>>, <<6051, 32912>>, <<25990, 20609>>,
            <<12206, 49100>>, <<25422, 7751>>, <<22646, 43757>>, <<43892, 31228>>,
            <<26002, 36230>>, <<61311, 32025>>, <<35311, 58546>>, <<55463, 54548>>,
            <<27472, 21758>>, <<20530, 45413>>, <<44906, 35730>>, <<34376, 51668>>,
            <<13398, 64395>>, <<29062, 8444>>, <<57548, 19946>>, <<15045, 37532>>,
            <<1794, 57245>>, <<35023, 22926>>, <<43939, 49714>>, <<59897, 27204>>,
            <<27348, 31959>>, <<29963, 24535>>, <<36614, 19433>>, <<28226, 17137>>,
            <<9200, 26103>>, <<61546, 44510>>, <<12982, 51040>>, <<51012, 33878>>,
            <<52477, 39053>>, <<46921, 55273>>, <<63455, 64905>>, <<52609, 33799>>,
            <<20540, 37183>>, <<6081, 52029>>, <<45372, 3606>>, <<33957, 42297>> >>
     ELSE IF seed = 2
     THEN <<
            <<28573, 23720>>, <<12129, 35343>>, <<1699, 6637>>, <<61049, 30280>>,
            <<36022, 44566>>, <<62110, 31019>>, <<28529, 18898>>, <<31768, 33867>>,
            <<27549, 14696>>, <<21006, 44295>>, <<21648, 53922>>, <<10120, 33201>>,
            <<13411, 55903>>, <<45800, 43595>>, <<40584, 35541>>, <<7861, 5167>>,
            <<19638, 11071>>, <<31796, 32031>>, <<17486, 51930>>, <<41467, 6548>>,
            <<40706, 41084>>, <<53623, 20084>>, <<34677, 56101>>, <<44762, 51879>>,
            <<8819, 54467>>, <<32673, 46182>>, <<33657, 56068>>, <<38456, 21418>>,
            <<12087, 29547>>, <<47169, 53299>>, <<51467, 47463>>, <<16940, 60966>>,
            <<55966, 8170>>, <<35796, 15905>>, <<32390, 20026>>, <<26693, 21372>>,
            <<55480, 16639>>, <<11598, 56643>>, <<5219, 42309>>, <<63545, 54360>>,
            <<33111, 52932>>, <<19465, 25902>>, <<4278, 40390>>, <<18865, 50527>>,
            <<28057, 27859>>, <<7614, 55417>>, <<6326, 16415>>, <<11909, 43458>> >>
     ELSE IF seed = 3
     THEN <<
            <<36097, 5994>>, <<4635, 1688>>, <<46409, 11513>>, <<55046, 59011>>,
            <<19064, 48056>>, <<7951, 25544>>, <<33477, 39168>>, <<37310, 25365>>,
            <<58520, 11261>>, <<28643, 19091>>, <<58739, 30410>>, <<1228, 43883>>,
            <<8230, 23545>>, <<2662, 50857>>, <<13581, 56970>>, <<16245, 39829>>,
            <<3372, 62583>>, <<6130, 64934>>, <<28888, 59872>>, <<45535, 63124>>,
            <<1957, 63404>>, <<9526, 64093>>, <<29939, 1447>>, <<29699, 6542>>,
            <<42542, 19960>>, <<14128, 3610>>, <<18250, 61777>>, <<23193, 34266>>,
            <<44319, 2710>>, <<32285, 25410>>, <<38722, 51458>>, <<59854, 8127>>,
            <<1571, 44348>>, <<50189, 12929>>, <<36625, 4019>>, <<63809, 858>>,
            <<16990, 24133>>, <<26369, 7016>>, <<27204, 4718>>, <<36226, 30305>>,
            <<18581, 6557>>, <<20077, 42602>>, <<45425, 31896>>, <<38444, 47611>>,
            <<28865, 37694>>, <<18017, 10759>>, <<10280, 31736>>, <<29793, 11435>> >>
     ELSE <<
            <<63375, 17530>>, <<59023, 8366>>, <<35863, 27063>>, <<11317, 49861>>,
            <<63745, 55169>>, <<56073, 63848>>, <<46846, 11863>>, <<39913, 49608>>,
            <<45726, 23346>>, <<39161, 29065>>, <<14161, 42042>>, <<9270, 65276>>,
            <<63981, 8039>>, <<14713, 14445>>, <<408, 20062>>, <<45771, 43831>>,
            <<16579, 29623>>, <<59190, 46393>>, <<28494, 32616>>, <<41481, 56996>>,
            <<51077, 41906>>, <<338, 7212>>, <<12955, 32038>>, <<37509, 62590>>,
            <<56557, 8170>>, <<23691, 1588>>, <<64448, 9603>>, <<39592, 25600>>,
            <<10737, 37047>>, <<25674, 51733>>, <<39146, 57493>>, <<53211, 52937>>,
            <<588, 59814>>, <<40142, 30205>>, <<25334, 21990>>, <<17463, 41016>>,
            <<2894, 4802>>, <<42199, 37038>>, <<62695, 13685>>, <<53153, 50206>>,
            <<28583, 20104>>, <<1246, 52785>>, <<62192, 11586>>, <<2607, 3002>>,
            <<51531, 22871>>, <<61931, 50592>>, <<56773, 8872>>, <<29251, 61683>> >>]

\* the seeds decision trees are constructed with
Seeds == {1, 2}

\* r modulo n for the 32-bit unsigned r
U32Mod(r, n) == ((r[1] % n) * (65536 % n) + (r[2] % n)) % n

\* ml_rng: the engine state is the seed and the number of draws made so far
ml_rng(seed) == [seed |-> seed, draws |-> 0]
random_number(rng) == MT19937[rng.seed][rng.draws + 1]
rng_advance(rng) == [rng EXCEPT !.draws = @ + 1]

\* ------------------------------------------------------------------- mldata
ML_DEFAULT_SEED == 42

\* std::swap(vec[ii], vec[jj]), 0-based
Swapped(vec, ii, jj) ==
  [vec EXCEPT ![ii + 1] = vec[jj + 1], ![jj + 1] = vec[ii + 1]]

\* shuffle_vector(vec, rng): the loop from ii down to 1, over
\* s = [vec, rng, killed]
RECURSIVE ShuffleLoop(_, _)
ShuffleLoop(s, ii) ==
  IF ii <= 0 THEN s
  ELSE ShuffleLoop([vec |-> Swapped(s.vec, ii, U32Mod(random_number(s.rng), ii + 1)),
                    rng |-> rng_advance(s.rng), killed |-> FALSE],
                   ii - 1)

\* returns [vec, rng, killed].  For an empty vector vec.size() - 1 wraps
\* around to the largest std::size_t, the loop is entered and ii + 1 is 0:
\* the generator is drawn from and the remainder by zero ends the process
shuffle_vector(vec, rng) ==
  IF vec = <<>> THEN [vec |-> vec, rng |-> rng_advance(rng), killed |-> TRUE]
  ELSE ShuffleLoop([vec |-> vec, rng |-> rng, killed |-> FALSE], Len(vec) - 1)

\* (ml_uint) ((training_factor * mld.size()) + 0.5), for the factor a/b >= 0
TrainingSize(training_factor, size) ==
  (2 * training_factor.a * size + training_factor.b) \div (2 * training_factor.b)

\* training and test once mld is shuffled: the first training_size instances
\* are copied to training and erased from mld, what is left is copied to test
SplitShuffled(shuffled, training_size) ==
  [mld |-> SubSeq(shuffled, training_size + 1, Len(shuffled)),
   training |-> SubSeq(shuffled, 1, training_size),
   test |-> SubSeq(shuffled, training_size + 1, Len(shuffled))]

\* split_data_into_training_and_test(mld, training_factor, training, test,
\* seed); returns [mld, training, test].  The factor is a fraction a/b that
\* ml_float holds exactly, so that comparing it with 0.99 is exact
split_data_into_training_and_test(mld, training_factor, seed) ==
  IF mld = <<>> THEN [mld |-> mld, training |-> <<>>, test |-> <<>>]
  ELSE IF RLess(Rat(99, 100), training_factor)
  THEN [mld |-> mld, training |-> <<>>, test |-> <<>>]
  ELSE SplitShuffled(shuffle_vector(mld, ml_rng(seed)).vec,
                     TrainingSize(training_factor, Len(mld)))

\* ------------------------------------------------------------ decision tree

DT_COMPARISON_EQUAL_TOL == [a |-> 1, b |-> 100000000]

NullNode == [node_type |-> "null"]

calc_mean_for_continuous_feature(feature_index, mld) ==
  IF mld = <<>> THEN RZero
  ELSE Rat(SeqSum(Column(feature_index, mld)), Len(mld))

\* std::map iterates the keys in ascending order and the test is a strict >,
\* so the smallest of the most frequent indices wins; 0 for an empty set
calc_mode_value_index_for_discrete_feature(feature_index, mld) ==
  LET col == Column(feature_index, mld)
      count(v) == Cardinality({i \in DOMAIN col : col[i] = v})
      best == {v \in Range(col) : \A w \in Range(col) : count(w) <= count(v)}
  IN  IF col = <<>> THEN 0
      ELSE CHOOSE v \in best : \A w \in best : v <= w

continuous_feature_satisfies_constraint(x, split_feature_value, op) ==
  CASE op = "lessthanorequal" -> IntLessThanCV(x, split_feature_value)
    [] op = "greaterthan"     -> IntGreaterThanCV(x, split_feature_value)

discrete_feature_satisfies_constraint(x, split_feature_value, op) ==
  CASE op = "equal"    -> x = split_feature_value.idx
    [] op = "notequal" -> x # split_feature_value.idx

\* variant for C7: every instance satisfies every constraint
C7_AlwaysSatisfied(instance, split_feature_index, split_feature_type, split_feature_value, split_op) == TRUE

instance_satisfies_constraint_of_split(instance, split_feature_index, split_feature_type, split_feature_value, split_op) ==
  LET x == instance[split_feature_index + 1]
  IN  IF split_feature_type = "continuous"
      THEN continuous_feature_satisfies_constraint(x, split_feature_value, split_op)
      ELSE discrete_feature_satisfies_constraint(x, split_feature_value, split_op)

SplitLeftTest(inst, split) ==
  instance_satisfies_constraint_of_split(inst, split.split_feature_index,
      split.split_feature_type, split.split_feature_value, split.split_left_op)

\* dt_split{}
NoopSplit ==
  [split_feature_index |-> 0, split_feature_type |-> "continuous",
   split_feature_value |-> EmptyValue,
   split_left_op |-> "noop", split_right_op |-> "noop",
   left_score |-> RZero, right_score |-> RZero]

\* variant for C29: the builder asks for the right constraint, the evaluator
\* for the left one
C29_SplitByRightConstraint(mld, split) ==
  [left  |-> SelectSeq(mld, LAMBDA inst :
                ~instance_satisfies_constraint_of_split(inst, split.split_feature_index,
                    split.split_feature_type, split.split_feature_value,
                    split.split_right_op)),
   right |-> SelectSeq(mld, LAMBDA inst :
                instance_satisfies_constraint_of_split(inst, split.split_feature_index,
                    split.split_feature_type, split.split_feature_value,
                    split.split_right_op))]

perform_split(mld, split) ==
  [left  |-> SelectSeq(mld, LAMBDA inst : SplitLeftTest(inst, split)),
   right |-> SelectSeq(mld, LAMBDA inst : ~SplitLeftTest(inst, split))]

add_splits_for_discrete_feature(feature_index, mld) ==
  LET all == UnorderedIterationOrder(Column(feature_index, mld))
      levels == IF Len(all) = 2 THEN Tail(all) ELSE all
  IN  IF mld = <<>> \/ Len(all) = 1 THEN <<>>
      ELSE [i \in 1..Len(levels) |->
              [split_feature_index |-> feature_index,
               split_feature_type |-> "discrete",
               split_feature_value |-> DV(levels[i]),
               split_left_op |-> "notequal", split_right_op |-> "equal",
               left_score |-> RZero, right_score |-> RZero]]

\* Welford's pass yields mean = S/n and M2 = sum of squared deviations
\* = Q/n with Q = n * sum(x^2) - S^2; std = sqrt(M2/(n-1)) = sqrt(Q/(n(n-1)))
add_splits_for_continuous_feature(feature_index, mld) ==
  LET col == Column(feature_index, mld)
      n == Len(col)
      S == SeqSum(col)
      Q == n * SeqSum([i \in DOMAIN col |-> col[i] * col[i]]) - S * S
      csplit(h) ==
        [split_feature_index |-> feature_index,
         split_feature_type |-> "continuous",
         split_feature_value |->
            IF h = 0 THEN CVRat(Rat(S, n)) ELSE CV(S, n, h, Q, n * (n - 1)),
         split_left_op |-> "lessthanorequal", split_right_op |-> "greaterthan",
         left_score |-> RZero, right_score |-> RZero]
  IN  IF mld = <<>> THEN <<>>
      ELSE IF n >= 2 /\ Q > 0 THEN << csplit(0), csplit(1), csplit(-1) >>
      ELSE << csplit(0) >>

\* the two sides of mld under a split; the empty noop split puts all left
SidesOf(mld, split) ==
  IF split.split_left_op = "noop" THEN [left |-> mld, right |-> <<>>]
  ELSE perform_split(mld, split)

\* sum of squared deviations from the mean of the predicted feature
SumSquaredDeviations(feature_index, mld) ==
  LET col == Column(feature_index, mld)
      n == Len(col)
      S == SeqSum(col)
  IN  IF n = 0 THEN RZero
      ELSE Rat(n * SeqSum([i \in DOMAIN col |-> col[i] * col[i]]) - S * S, n)

score_regions_with_split_for_regression(mld, split, tree) ==
  LET sides == SidesOf(mld, split)
      lscore == SumSquaredDeviations(tree.index_of_feature_to_predict_, sides.left)
      rscore == SumSquaredDeviations(tree.index_of_feature_to_predict_, sides.right)
  IN  [lscore |-> lscore, rscore |-> rscore, combined_score |-> RAdd(lscore, rscore)]

\* sum over the classes present of p * (1 - p)
GiniOf(feature_index, mld) ==
  LET col == Column(feature_index, mld)
      n == Len(col)
      classes == FirstOccurrences(col)
      count(v) == Cardinality({i \in DOMAIN col : col[i] = v})
  IN  SeqRSum([k \in DOMAIN classes |->
                 Rat(count(classes[k]) * (n - count(classes[k])), n * n)])

score_regions_with_split_for_classification(mld, split, tree) ==
  LET sides == SidesOf(mld, split)
      lscore == GiniOf(tree.index_of_feature_to_predict_, sides.left)
      rscore == GiniOf(tree.index_of_feature_to_predict_, sides.right)
  IN  [lscore |-> lscore, rscore |-> rscore,
       combined_score |->
          RAdd(RMul(Rat(Len(sides.left), Len(mld)), lscore),
               RMul(Rat(Len(sides.right), Len(mld)), rscore))]

score_regions_with_split(mld, split, tree) ==
  IF mld = <<>>
  THEN [lscore |-> RZero, rscore |-> RZero, combined_score |-> RZero]
  ELSE IF tree.type_ = "regression"
       THEN score_regions_with_split_for_regression(mld, split, tree)
       ELSE score_regions_with_split_for_classification(mld, split, tree)

score_region(mld, tree) == score_regions_with_split(mld, NoopSplit, tree).combined_score

\* variant for C26: a draw of the predicted feature is not passed over
RECURSIVE C26_PredictedNotPassedOver(_, _, _)
C26_PredictedNotPassedOver(tree, rng, random_features) ==
  IF Cardinality(random_features) >= tree.features_to_consider_per_node_
  THEN [random_features |-> random_features, rng |-> rng]
  ELSE C26_PredictedNotPassedOver(tree, rng_advance(rng),
         random_features \cup {U32Mod(random_number(rng), Len(tree.mlid_))})

\* ml_map<ml_uint, bool> random_features: only membership is ever asked
RECURSIVE pick_loop(_, _, _)
pick_loop(tree, rng, random_features) ==
  IF Cardinality(random_features) >= tree.features_to_consider_per_node_
  THEN [random_features |-> random_features, rng |-> rng]
  ELSE LET feature_index == U32Mod(random_number(rng), Len(tree.mlid_))
           rng2 == rng_advance(rng)
       IN  IF feature_index = tree.index_of_feature_to_predict_
              \/ feature_index \in random_features
           THEN pick_loop(tree, rng2, random_features)
           ELSE pick_loop(tree, rng2, random_features \cup {feature_index})

pick_random_features_to_consider(tree, rng, random_features) ==
  IF tree.features_to_consider_per_node_ > Len(tree.mlid_) - 1
  THEN [random_features |-> random_features, rng |-> rng]
  ELSE pick_loop(tree, rng, random_features)

RECURSIVE SplitsForFeatures(_, _, _, _)
SplitsForFeatures(findex, mld, considered, tree) ==
  IF findex >= Len(tree.mlid_) THEN <<>>
  ELSE LET rest == SplitsForFeatures(findex + 1, mld, considered, tree)
       IN  IF findex = tree.index_of_feature_to_predict_ THEN rest
           ELSE IF considered # {} /\ findex \notin considered THEN rest
           ELSE IF tree.mlid_[findex + 1] = "discrete"
                THEN add_splits_for_discrete_feature(findex, mld) \o rest
                ELSE add_splits_for_continuous_feature(findex, mld) \o rest

\* the index of the first split whose combined score is the smallest
BestSplitIndex(scores) ==
  CHOOSE ii \in DOMAIN scores :
    /\ \A jj \in DOMAIN scores : ~RLess(scores[jj].combined_score, scores[ii].combined_score)
    /\ \A jj \in 1..(ii - 1) : RLess(scores[ii].combined_score, scores[jj].combined_score)

\* the features drawn for this node, and the generator after the draws
PickedFeatures(tree) ==
  IF tree.features_to_consider_per_node_ > 0
  THEN pick_random_features_to_consider(tree, tree.rng_, {})
  ELSE [random_features |-> {}, rng |-> tree.rng_]

\* best_split_index < splits.size(): the best split, its scores, the importance
BestSplitFound(score, tree, rng, split, best) ==
  [found |-> TRUE,
   best_split |-> [split EXCEPT !.left_score = best.lscore,
                                !.right_score = best.rscore],
   tree |-> [tree EXCEPT
               !.rng_ = rng,
               !.feature_importance_[split.split_feature_index + 1] =
                  [sum_score_delta |-> RAdd(@.sum_score_delta,
                                            RSub(score, best.combined_score)),
                   count |-> @.count + 1]]]

BestOfScored(score, tree, rng, splits, scores) ==
  BestSplitFound(score, tree, rng,
                 splits[BestSplitIndex(scores)], scores[BestSplitIndex(scores)])

BestOfSplits(mld, score, tree, rng, splits) ==
  IF splits # <<>>
  THEN BestOfScored(score, tree, rng, splits,
          [ii \in DOMAIN splits |-> score_regions_with_split(mld, splits[ii], tree)])
  ELSE [found |-> FALSE,
        best_split |-> NoopSplit,
        tree |-> [tree EXCEPT !.rng_ = rng]]

BestOfPicked(mld, score, tree, picked) ==
  BestOfSplits(mld, score, tree, picked.rng,
               SplitsForFeatures(0, mld, picked.random_features, tree))

find_best_split(mld, score, tree) ==
  BestOfPicked(mld, score, tree, PickedFeatures(tree))

\* make_shared<dt_node>(): value-initialised
NewNode ==
  [node_type |-> "split", feature_index |-> 0, feature_type |-> "continuous",
   feature_value |-> EmptyValue,
   split_left_op |-> "noop", split_left_node |-> NullNode,
   split_right_op |-> "noop", split_right_node |-> NullNode,
   leaf_instances |-> <<>>]

config_leaf_node(mld, leaf, tree) ==
  LET fi == tree.index_of_feature_to_predict_
  IN  [node |-> [leaf EXCEPT
                   !.node_type = "leaf",
                   !.feature_index = fi,
                   !.feature_type = tree.mlid_[fi + 1],
                   !.feature_value =
                      IF tree.type_ = "regression"
                      THEN CVRat(calc_mean_for_continuous_feature(fi, mld))
                      ELSE DV(calc_mode_value_index_for_discrete_feature(fi, mld)),
                   !.leaf_instances =
                      IF tree.keep_instances_at_leaf_nodes_ THEN mld ELSE @],
       tree |-> [tree EXCEPT !.leaves_ = @ + 1]]

config_split_node(split, split_node) ==
  [split_node EXCEPT
     !.node_type = "split",
     !.feature_index = split.split_feature_index,
     !.feature_type = split.split_feature_type,
     !.feature_value = split.split_feature_value,
     !.split_left_op = split.split_left_op,
     !.split_right_op = split.split_right_op]

\* fabs(left - right) < DT_COMPARISON_EQUAL_TOL, leaf values being means
ContinuousValuesWithinTol(l, r) ==
  LET d == RSub([a |-> l.a, b |-> l.b], [a |-> r.a, b |-> r.b])
  IN  RLess([a |-> Abs(d.a), b |-> d.b], DT_COMPARISON_EQUAL_TOL)

\* variant for C5: no pair of leaves is ever taken for twins
C5_NeverTwins(node, tree) == FALSE

TwinLeaves(node, tree) ==
  /\ node.split_left_node.node_type = "leaf"
  /\ node.split_right_node.node_type = "leaf"
  /\ \/ /\ tree.type_ = "classification"
        /\ discrete_value_index(node.split_left_node.feature_value)
             = discrete_value_index(node.split_right_node.feature_value)
     \/ /\ tree.type_ = "regression"
        /\ ContinuousValuesWithinTol(continuous_value(node.split_left_node.feature_value),
                                     continuous_value(node.split_right_node.feature_value))

\* variant for C6: the prune forgets the two nodes it discards in the counts
C6_PruneKeepsCounts(node, tree) ==
  IF node.split_left_node.node_type = "leaf" /\ node.split_right_node.node_type = "leaf"
     /\ node.split_left_node.feature_value = node.split_right_node.feature_value
  THEN [pruned |-> TRUE,
        node |-> [node EXCEPT !.split_left_node = NullNode,
                              !.split_right_node = NullNode],
        tree |-> tree]
  ELSE [pruned |-> FALSE, node |-> node, tree |-> tree]

\* variant for C28: the prune takes one Leaf instead of two from leaves_
C28_PruneCountsOneLeaf(node, tree) ==
  IF TwinLeaves(node, tree)
  THEN [pruned |-> TRUE,
        node |-> [node EXCEPT !.split_left_node = NullNode,
                              !.split_right_node = NullNode],
        tree |-> [tree EXCEPT !.nodes_ = @ - 2, !.leaves_ = @ - 1]]
  ELSE [pruned |-> FALSE, node |-> node, tree |-> tree]

prune_twin_leaf_nodes(node, tree) ==
  IF TwinLeaves(node, tree)
  THEN [pruned |-> TRUE,
        node |-> [node EXCEPT !.split_left_node = NullNode,
                              !.split_right_node = NullNode],
        tree |-> [tree EXCEPT !.nodes_ = @ - 2, !.leaves_ = @ - 2]]
  ELSE [pruned |-> FALSE, node |-> node, tree |-> tree]

\* variant for C3: the depth rule one level late
C3_DepthLimitOneLate(depth, tree) == depth = tree.max_tree_depth_ + 1

DepthLimitReached(depth, tree) == depth = tree.max_tree_depth_

\* variant for C4: only the left side is counted
C4_LeftSideOnly(leftmld, rightmld, tree) == Len(leftmld) < tree.min_leaf_instances_

TooFewInstances(leftmld, rightmld, tree) ==
  \/ Len(leftmld) < tree.min_leaf_instances_
  \/ Len(rightmld) < tree.min_leaf_instances_

RECURSIVE build_tree_node(_, _, _, _)

\* after both children are built: prune twin leaves or keep the split
PrunedOrKept(mld, pr) ==
  IF pr.pruned
  THEN config_leaf_node(mld, pr.node, pr.tree)
  ELSE [node |-> pr.node, tree |-> pr.tree]

BuildJoin(mld, best_split, l, r) ==
  PrunedOrKept(mld,
    prune_twin_leaf_nodes([config_split_node(best_split, NewNode) EXCEPT
                             !.split_left_node = l.node,
                             !.split_right_node = r.node],
                          r.tree))

BuildRight(mld, depth, best_split, rightmld, l) ==
  BuildJoin(mld, best_split, l,
            build_tree_node(rightmld, depth + 1, best_split.right_score, l.tree))

BuildChildren(mld, depth, fbs, parts) ==
  IF TooFewInstances(parts.left, parts.right, fbs.tree)
  THEN config_leaf_node(mld, NewNode, fbs.tree)
  ELSE BuildRight(mld, depth, fbs.best_split, parts.right,
                  build_tree_node(parts.left, depth + 1,
                                  fbs.best_split.left_score, fbs.tree))

BuildSplit(mld, depth, fbs) ==
  BuildChildren(mld, depth, fbs,
                IF fbs.found THEN perform_split(mld, fbs.best_split)
                ELSE [left |-> <<>>, right |-> <<>>])

build_tree_node(mld, depth, score, tree) ==
  IF DepthLimitReached(depth, tree)
  THEN config_leaf_node(mld, NewNode, [tree EXCEPT !.nodes_ = @ + 1])
  ELSE BuildSplit(mld, depth,
                  find_best_split(mld, score, [tree EXCEPT !.nodes_ = @ + 1]))

validate_for_training(mld, tree) ==
  /\ tree.mlid_ # <<>>
  /\ mld # <<>>
  /\ ~(Len(mld[1]) < Len(tree.mlid_))
  /\ ~(tree.index_of_feature_to_predict_ >= Len(tree.mlid_))
  /\ tree.min_leaf_instances_ # 0

ZeroImportance == [sum_score_delta |-> RZero, count |-> 0]

\* root_ = nullptr; nodes_ = leaves_ = 0; feature_importance_ cleared and resized
ResetForTraining(tree) ==
  [tree EXCEPT
     !.root_ = NullNode, !.nodes_ = 0, !.leaves_ = 0,
     !.feature_importance_ = [i \in 1..Len(tree.mlid_) |-> ZeroImportance]]

Trained(built) == [ok |-> TRUE, tree |-> [built.tree EXCEPT !.root_ = built.node]]

TrainReset(mld, t0) == Trained(build_tree_node(mld, 0, score_region(mld, t0), t0))

\* variant for C8: the tree is reset before the inputs are validated
C8_ResetBeforeValidate(mld, tree) ==
  IF ~validate_for_training(mld, tree)
  THEN [ok |-> FALSE, tree |-> ResetForTraining(tree)]
  ELSE TrainReset(mld, ResetForTraining(tree))

train(mld, tree) ==
  IF ~validate_for_training(mld, tree)
  THEN [ok |-> FALSE, tree |-> tree]
  ELSE TrainReset(mld, ResetForTraining(tree))

\* set_seed(seed): the generator starts over from the new seed
set_seed(tree, seed) == [tree EXCEPT !.seed_ = seed, !.rng_ = ml_rng(seed)]

set_max_tree_depth(tree, depth) == [tree EXCEPT !.max_tree_depth_ = depth]

RECURSIVE evaluate_decision_tree_node_for_instance(_, _)
evaluate_decision_tree_node_for_instance(node, instance) ==
  IF node.node_type = "leaf" THEN node.feature_value
  ELSE IF instance_satisfies_constraint_of_split(instance, node.feature_index,
             node.feature_type, node.feature_value, node.split_left_op)
       THEN evaluate_decision_tree_node_for_instance(node.split_left_node, instance)
       ELSE evaluate_decision_tree_node_for_instance(node.split_right_node, instance)

evaluate(tree, instance) ==
  IF tree.root_ = NullNode \/ tree.mlid_ = <<>> THEN EmptyValue
  ELSE IF Len(instance) < Len(tree.mlid_) THEN EmptyValue
  ELSE evaluate_decision_tree_node_for_instance(tree.root_, instance)

\* ------------------------------------------------------------- random forest
\* a null ml_feature_value pointer
NullValue == [kind |-> "null"]

\* a dt_tree: the name it was given and its root; dt_tree tree; leaves the
\* name the empty string and the tree without a root
dt_tree(name, root) == [name |-> name, root |-> root]

\* dt_evaluateDecisionTreeForInstance(mlid, tree, instance): a pointer to the
\* value of the Leaf the instance reaches, null when the tree has no root
dt_evaluateDecisionTreeForInstance(dt, instance) ==
  IF dt.root = NullNode THEN NullValue
  ELSE evaluate_decision_tree_node_for_instance(dt.root, instance)

\* a ml_vector<ml_feature_value> * argument: a null pointer, or a vector of
\* the caller's with what it holds
NoVector == [supplied |-> FALSE, values |-> <<>>]
VectorOf(values) == [supplied |-> TRUE, values |-> values]

\* if(tree_predictions) tree_predictions->push_back(*mlfv)
PushedBack(tree_predictions, mlfv) ==
  IF tree_predictions.supplied
  THEN [tree_predictions EXCEPT !.values = Append(@, mlfv)]
  ELSE tree_predictions

\* the loop of the classification evaluator over forest.trees, up to the
\* first tree whose evaluation fails.  prediction_map is the function's own
\* map, written as the indexes counted into it in order; tree_predictions
\* is the caller's vector
RECURSIVE ClassificationLoop(_, _, _, _)
ClassificationLoop(trees, instance, prediction_map, tree_predictions) ==
  IF trees = <<>>
  THEN [ok |-> TRUE, prediction_map |-> prediction_map,
        tree_predictions |-> tree_predictions]
  ELSE IF dt_evaluateDecisionTreeForInstance(Head(trees), instance) = NullValue
       THEN [ok |-> FALSE, prediction_map |-> prediction_map,
             tree_predictions |-> tree_predictions]
       ELSE ClassificationLoop(Tail(trees), instance,
              Append(prediction_map,
                     discrete_value_index(
                       dt_evaluateDecisionTreeForInstance(Head(trees), instance))),
              PushedBack(tree_predictions,
                         dt_evaluateDecisionTreeForInstance(Head(trees), instance)))

\* prediction_map[index] after the loop over the trees
PredictionCount(prediction_map, index) ==
  Cardinality({ i \in DOMAIN prediction_map : prediction_map[i] = index })

\* the loop over prediction_map: the entry kept is the first one, in the
\* map's iteration order, that no earlier and no later entry beats
RECURSIVE MostVoted(_, _, _, _)
MostVoted(keys, prediction_map, predicted_discrete_value_index, predicted_count) ==
  IF keys = <<>> THEN predicted_discrete_value_index
  ELSE IF PredictionCount(prediction_map, Head(keys)) > predicted_count
       THEN MostVoted(Tail(keys), prediction_map, Head(keys),
                      PredictionCount(prediction_map, Head(keys)))
       ELSE MostVoted(Tail(keys), prediction_map, predicted_discrete_value_index,
                      predicted_count)

ClassificationVote(prediction_map) ==
  MostVoted(UnorderedIterationOrder(prediction_map), prediction_map, 0, 0)

\* returns [ok, prediction, tree_predictions]; prediction is the caller's
\* when the evaluation fails
ClassificationResult(prediction, evaluated) ==
  [ok |-> evaluated.ok,
   prediction |-> IF evaluated.ok
                  THEN DV(ClassificationVote(evaluated.prediction_map))
                  ELSE prediction,
   tree_predictions |-> evaluated.tree_predictions]

_rf_evaluateClassificationRandomForestForInstance(rf, instance, prediction, tree_predictions) ==
  IF Len(rf.trees) = 0
  THEN [ok |-> FALSE, prediction |-> prediction, tree_predictions |-> tree_predictions]
  ELSE ClassificationResult(prediction,
         ClassificationLoop(rf.trees, instance, <<>>, tree_predictions))

\* sum += mlfv->continuous_value, kept exact
SumPlus(sum, mlfv) ==
  RAdd(sum, [a |-> continuous_value(mlfv).a, b |-> continuous_value(mlfv).b])

\* the loop of the regression evaluator over forest.trees, up to the first
\* tree whose evaluation fails.  sum is the function's own accumulator;
\* tree_predictions is the caller's vector
RECURSIVE RegressionLoop(_, _, _, _)
RegressionLoop(trees, instance, sum, tree_predictions) ==
  IF trees = <<>>
  THEN [ok |-> TRUE, sum |-> sum, tree_predictions |-> tree_predictions]
  ELSE IF dt_evaluateDecisionTreeForInstance(Head(trees), instance) = NullValue
       THEN [ok |-> FALSE, sum |-> sum, tree_predictions |-> tree_predictions]
       ELSE RegressionLoop(Tail(trees), instance,
              SumPlus(sum, dt_evaluateDecisionTreeForInstance(Head(trees), instance)),
              PushedBack(tree_predictions,
                         dt_evaluateDecisionTreeForInstance(Head(trees), instance)))

\* variant for C11: the sum of the tree predictions, not divided
C11_SumNotDivided(sum, size) == sum

\* sum / forest.trees.size(), kept exact
RegressionMean(sum, size) == RMul(sum, Rat(1, size))

RegressionResult(prediction, evaluated, size) ==
  [ok |-> evaluated.ok,
   prediction |-> IF evaluated.ok
                  THEN CVRat(RegressionMean(evaluated.sum, size))
                  ELSE prediction,
   tree_predictions |-> evaluated.tree_predictions]

_rf_evaluateRegressionRandomForestForInstance(rf, instance, prediction, tree_predictions) ==
  IF Len(rf.trees) = 0
  THEN [ok |-> FALSE, prediction |-> prediction, tree_predictions |-> tree_predictions]
  ELSE RegressionResult(prediction,
         RegressionLoop(rf.trees, instance, RZero, tree_predictions),
         Len(rf.trees))

\* if(tree_predictions) tree_predictions->clear()
Cleared(tree_predictions) ==
  IF tree_predictions.supplied THEN VectorOf(<<>>) ELSE tree_predictions

rf_evaluateRandomForestForInstance(rf, instance, prediction, tree_predictions) ==
  IF rf.type = "classification"
  THEN _rf_evaluateClassificationRandomForestForInstance(rf, instance, prediction,
                                                         Cleared(tree_predictions))
  ELSE _rf_evaluateRegressionRandomForestForInstance(rf, instance, prediction,
                                                     Cleared(tree_predictions))

rf_freeRandomForest(rf) ==
  [rf EXCEPT !.trees = <<>>, !.index_of_feature_to_predict = 0]

\* decision_tree::decision_tree(mlid, index_of_feature_to_predict, ...): the
\* members as the constructor leaves them.  type_ is read from mlid_[index]:
\* with the index out of range the read is out of bounds and type_ is what
\* it finds (undef_type), unless the read kills the process
\* (ConstructorOutcomes); decision_tree() assigns no type_ at all and leaves
\* keep_instances_at_leaf_nodes_ false
decision_tree(mlid, index_of_feature_to_predict, max_tree_depth, min_leaf_instances, features_to_consider_per_node, seed, keep_instances_at_leaf_nodes, undef_type) ==
  [mlid_ |-> mlid,
   index_of_feature_to_predict_ |-> index_of_feature_to_predict,
   max_tree_depth_ |-> max_tree_depth,
   min_leaf_instances_ |-> min_leaf_instances,
   features_to_consider_per_node_ |-> features_to_consider_per_node,
   seed_ |-> seed,
   keep_instances_at_leaf_nodes_ |-> keep_instances_at_leaf_nodes,
   type_ |-> IF index_of_feature_to_predict < Len(mlid)
             THEN IF mlid[index_of_feature_to_predict + 1] = "discrete"
                  THEN "classification" ELSE "regression"
             ELSE undef_type,
   nodes_ |-> 0,
   leaves_ |-> 0,
   root_ |-> NullNode,
   rng_ |-> ml_rng(seed),
   feature_importance_ |-> <<>>]

\* ------------------------------------------------------------- forest build
RF_MIN_LEAF_INSTANCES == 2
RF_MAX_THREADS == 20

\* ml_createRngConfigWithSeed(seed): an ml_rng_config holding a std::mt19937
\* seeded with seed (a seed of 0 is seeded from the clock and is not used here)
ml_createRngConfigWithSeed(seed) == ml_rng(seed)

\* ml_generateRandomNumber(rng_config): the next output of the engine
ml_generateRandomNumber(rng_config) == random_number(rng_config)

\* oob holds 0 .. size-1
_rf_initOutOfBagIndices(size) == 0..(size - 1)

\* variant for C12: a drawn index is left in the out-of-bag set
C12_DrawnStaysOutOfBag(mld, s, index) ==
  [rng_config |-> rng_advance(s.rng_config),
   bootstrapped |-> Append(s.bootstrapped, mld[index + 1]),
   indices |-> Append(s.indices, index),
   oob |-> s.oob]

\* one pass of the loop of _rf_bootstrappedSampleFromData with the index drawn;
\* indices lists the values the local variable index took
BootstrapDraw(mld, s, index) ==
  [rng_config |-> rng_advance(s.rng_config),
   bootstrapped |-> Append(s.bootstrapped, mld[index + 1]),
   indices |-> Append(s.indices, index),
   oob |-> s.oob \ {index}]

RECURSIVE BootstrapLoop(_, _, _)
BootstrapLoop(mld, ii, s) ==
  IF ii >= Len(mld) THEN s
  ELSE BootstrapLoop(mld, ii + 1,
         BootstrapDraw(mld, s,
                       U32Mod(ml_generateRandomNumber(s.rng_config), Len(mld))))

\* returns [rng_config, bootstrapped, indices, oob]
_rf_bootstrappedSampleFromData(mld, rng_config) ==
  BootstrapLoop(mld, 0,
                [rng_config |-> rng_config, bootstrapped |-> <<>>,
                 indices |-> <<>>, oob |-> _rf_initOutOfBagIndices(Len(mld))])

\* what dt_buildDecisionTree leaves: whether it built, the dt_tree it was
\* handed with the root it built, and the generator state
BuiltTree(tree, r) ==
  [ok |-> r.ok, tree |-> [tree EXCEPT !.root = r.tree.root_],
   rng_config |-> r.tree.rng_]

\* dt_buildDecisionTree(mlid, bootstrapped, dtbc, tree): the tree builder over
\* the configuration dtbc, drawing from dtbc.rng_config; it fails when its
\* inputs are not valid for training.  The name of tree is the caller's
dt_buildDecisionTree(mlid, bootstrapped, dtbc, tree) ==
  BuiltTree(tree,
            train(bootstrapped,
                  [decision_tree(mlid, dtbc.index_of_feature_to_predict,
                                 dtbc.max_tree_depth, dtbc.min_leaf_instances,
                                 dtbc.features_to_consider_per_node, 1, FALSE,
                                 "regression")
                     EXCEPT !.rng_ = dtbc.rng_config]))

_rf_fillDTConfig(rfbc, thread_index) ==
  [index_of_feature_to_predict |-> rfbc.index_of_feature_to_predict,
   max_tree_depth |-> rfbc.max_tree_depth,
   max_continuous_feature_splits |-> rfbc.max_continuous_feature_splits,
   rng_config |-> ml_createRngConfigWithSeed(rfbc.seed + thread_index),
   min_leaf_instances |-> RF_MIN_LEAF_INSTANCES,
   features_to_consider_per_node |-> rfbc.features_to_consider_per_node]

\* the loop of _rf_SingleThreaded_buildRandomForest over
\* s = [ok, dtbc, trees, oobs, samples]; trees is forest.trees and samples
\* lists the indices each tree's sample was drawn with.  The sample is drawn
\* from dtbc.rng_config before the tree is built, so a pass whose build fails
\* leaves the generator where the draws of its sample took it.
\* forest_feature_importance, which the loop adds to, is a local of
\* rf_buildRandomForest that is only printed
RECURSIVE SingleThreadedLoop(_, _, _, _, _)

\* the end of a pass: return(false), or oobs.push_back(oob) and
\* forest.trees.push_back(tree)
SingleThreadedBuilt(rfbc, mlid, mld, ii, s, sample, built) ==
  IF ~built.ok THEN [s EXCEPT !.ok = FALSE, !.dtbc.rng_config = built.rng_config]
  ELSE SingleThreadedLoop(rfbc, mlid, mld, ii + 1,
         [s EXCEPT !.dtbc.rng_config = built.rng_config,
                   !.oobs = Append(@, sample.oob),
                   !.trees = Append(@, built.tree),
                   !.samples = Append(@, sample.indices)])

\* dt_tree tree; dt_buildDecisionTree(mlid, bootstrapped, dtbc, tree)
SingleThreadedPass(rfbc, mlid, mld, ii, s, sample) ==
  SingleThreadedBuilt(rfbc, mlid, mld, ii, s, sample,
    dt_buildDecisionTree(mlid, sample.bootstrapped,
                         [s.dtbc EXCEPT !.rng_config = sample.rng_config],
                         dt_tree("", NullNode)))

SingleThreadedLoop(rfbc, mlid, mld, ii, s) ==
  IF ii >= rfbc.number_of_trees THEN [s EXCEPT !.ok = TRUE]
  ELSE SingleThreadedPass(rfbc, mlid, mld, ii, s,
         _rf_bootstrappedSampleFromData(mld, s.dtbc.rng_config))

\* returns [ok, dtbc, trees, oobs, samples]
_rf_SingleThreaded_buildRandomForest(rfbc, mlid, mld, forest, oobs) ==
  SingleThreadedLoop(rfbc, mlid, mld, 0,
                     [ok |-> TRUE, dtbc |-> _rf_fillDTConfig(rfbc, 0),
                      trees |-> forest.trees, oobs |-> oobs, samples |-> <<>>])

\* variant for C19: the remainder of the division is given to no thread
C19_RemainderDropped(rfbc, thread_index) ==
  [thread_index |-> thread_index,
   number_of_trees |-> rfbc.number_of_trees \div rfbc.number_of_threads,
   dtbc |-> _rf_fillDTConfig(rfbc, thread_index),
   oobs |-> <<>>, trees |-> <<>>, samples |-> <<>>, returned |-> FALSE]

\* thread_config[thread_index] as _rf_MultiThreaded_buildRandomForest fills it;
\* returned tells whether the thread's function has returned
rf_thread_config(rfbc, thread_index) ==
  [thread_index |-> thread_index,
   number_of_trees |-> (rfbc.number_of_trees \div rfbc.number_of_threads)
                         + (IF thread_index = 0
                            THEN rfbc.number_of_trees % rfbc.number_of_threads
                            ELSE 0),
   dtbc |-> _rf_fillDTConfig(rfbc, thread_index),
   oobs |-> <<>>, trees |-> <<>>, samples |-> <<>>, returned |-> FALSE]

\* ss << "[thread " << rftc->thread_index << "]"
thread_name(thread_index) == "[thread " \o ToString(thread_index) \o "]"

\* the end of a pass of the loop of _rf_MultiThreaded_buildTree: the thread
\* returns when the tree failed to build or was the last of its share; the
\* generator has been drawn from for the sample in either case
WorkerBuilt(rftc, sample, built) ==
  IF ~built.ok
  THEN [rftc EXCEPT !.returned = TRUE, !.dtbc.rng_config = built.rng_config]
  ELSE [rftc EXCEPT !.dtbc.rng_config = built.rng_config,
                    !.oobs = Append(@, sample.oob),
                    !.trees = Append(@, built.tree),
                    !.samples = Append(@, sample.indices),
                    !.returned = (Len(rftc.trees) + 1 >= rftc.number_of_trees)]

\* variant for C30: the generator a tree was built with is not carried to the
\* thread's next tree
C30_StreamNotCarried(rftc, mlid, sample) ==
  WorkerBuilt(rftc, sample,
    [dt_buildDecisionTree(mlid, sample.bootstrapped,
                          [rftc.dtbc EXCEPT !.rng_config = sample.rng_config],
                          [dt_tree("", NullNode)
                             EXCEPT !.name = thread_name(rftc.thread_index)])
       EXCEPT !.rng_config = rftc.dtbc.rng_config])

\* dt_tree tree; tree.name = thread_name;
\* dt_buildDecisionTree(*(rftc->mlid), bootstrapped, rftc->dtbc, tree)
WorkerPass(rftc, mlid, sample) ==
  WorkerBuilt(rftc, sample,
    dt_buildDecisionTree(mlid, sample.bootstrapped,
                         [rftc.dtbc EXCEPT !.rng_config = sample.rng_config],
                         [dt_tree("", NullNode)
                            EXCEPT !.name = thread_name(rftc.thread_index)]))

\* one pass of the loop of _rf_MultiThreaded_buildTree
_rf_MultiThreaded_buildTree(rftc, mlid, mld) ==
  WorkerPass(rftc, mlid, _rf_bootstrappedSampleFromData(mld, rftc.dtbc.rng_config))

\* variant for C16: the out-of-bag sets of a thread are put before those of
\* the threads combined earlier
RECURSIVE C16_OobsOfLaterThreadsFirst(_, _, _)
C16_OobsOfLaterThreadsFirst(thread_config, thread_index, s) ==
  IF thread_index >= Len(thread_config) THEN [s EXCEPT !.ok = TRUE]
  ELSE IF Len(thread_config[thread_index + 1].trees)
            # thread_config[thread_index + 1].number_of_trees
       THEN [s EXCEPT !.ok = FALSE]
       ELSE C16_OobsOfLaterThreadsFirst(thread_config, thread_index + 1,
              [s EXCEPT !.oobs = thread_config[thread_index + 1].oobs \o @,
                        !.trees = @ \o thread_config[thread_index + 1].trees,
                        !.samples = @ \o thread_config[thread_index + 1].samples])

\* the combination loop of _rf_MultiThreaded_buildRandomForest over
\* s = [ok, trees, oobs, samples], thread by thread
RECURSIVE CombineLoop(_, _, _)
CombineLoop(thread_config, thread_index, s) ==
  IF thread_index >= Len(thread_config) THEN [s EXCEPT !.ok = TRUE]
  ELSE IF Len(thread_config[thread_index + 1].trees)
            # thread_config[thread_index + 1].number_of_trees
       THEN [s EXCEPT !.ok = FALSE]
       ELSE CombineLoop(thread_config, thread_index + 1,
              [s EXCEPT !.oobs = @ \o thread_config[thread_index + 1].oobs,
                        !.trees = @ \o thread_config[thread_index + 1].trees,
                        !.samples = @ \o thread_config[thread_index + 1].samples])

\* variant for C17: every tree of the forest, whatever its out-of-bag set
RECURSIVE C17_EveryTree(_, _, _, _)
C17_EveryTree(trees, oobs, instance_index, tree_index) ==
  IF tree_index >= Len(trees) THEN <<>>
  ELSE << trees[tree_index + 1] >>
         \o C17_EveryTree(trees, oobs, instance_index, tree_index + 1)

\* the trees of the forest whose out-of-bag set holds instance_index
RECURSIVE OobTrees(_, _, _, _)
OobTrees(trees, oobs, instance_index, tree_index) ==
  IF tree_index >= Len(trees) THEN <<>>
  ELSE IF instance_index \in oobs[tree_index + 1]
       THEN << trees[tree_index + 1] >>
              \o OobTrees(trees, oobs, instance_index, tree_index + 1)
       ELSE OobTrees(trees, oobs, instance_index, tree_index + 1)

oob_forest(forest, oobs, instance_index) ==
  [index_of_feature_to_predict |-> forest.index_of_feature_to_predict,
   type |-> forest.type,
   trees |-> OobTrees(forest.trees, oobs, instance_index, 0)]

\* the prediction is pushed when the evaluation succeeded and a vector was
\* supplied
OobPushed(oob_for_mld, r) ==
  IF r.ok /\ oob_for_mld.supplied
  THEN [oob_for_mld EXCEPT !.values = Append(@, r.prediction)]
  ELSE oob_for_mld

\* the loop of _rf_calculateOutOfBagError over the instances; the local
\* prediction is read only after a successful evaluation has written it
RECURSIVE OobLoop(_, _, _, _, _)
OobLoop(mld, forest, oobs, instance_index, oob_for_mld) ==
  IF instance_index >= Len(mld) THEN oob_for_mld
  ELSE OobLoop(mld, forest, oobs, instance_index + 1,
         OobPushed(oob_for_mld,
                   rf_evaluateRandomForestForInstance(
                     oob_forest(forest, oobs, instance_index),
                     mld[instance_index + 1], EmptyValue, NoVector)))

\* returns oob_for_mld; the error summary is only printed
_rf_calculateOutOfBagError(mld, forest, oobs, oob_for_mld) ==
  OobLoop(mld, forest, oobs, 0, oob_for_mld)

\* ---------------------------------------------------------------- persistence
\* the enumerators of dt_node_type, ml_feature_type, ml_model_type and
\* dt_comparison_op in the order of their values, the first being 0
dt_node_type == <<"split", "leaf">>
ml_feature_type == <<"continuous", "discrete">>
ml_model_type == <<"classification", "regression">>
dt_comparison_op == <<"noop", "lessthanorequal", "greaterthan", "equal", "notequal">>

\* (ml_uint) e, and (E) value for a value of the enumeration
EnumValue(enum, e) == (CHOOSE i \in DOMAIN enum : enum[i] = e) - 1
EnumOf(enum, value) == enum[value + 1]

\* a json number holds an unsigned integer or a floating-point value
JsonUnsigned(n) == [number |-> "unsigned", value |-> n]
JsonFloat(v) == [number |-> "float", value |-> v]
\* a json boolean, what a bool is written as
JsonBool(b) == [boolean |-> b]

\* the version string of the library: mldata.h declares it and the source
\* does not hold its definition; mldata.cpp 39 defines ML_VERSION = 0.1.  It
\* is written to the tree json and never read back
ML_VERSION_STRING == "0.1"
\* (double) n and (float) n of an unsigned n
FloatOf(n) == CV(n, 1, 0, 0, 1)

\* the number read as an unsigned integer: a floating-point value is truncated
AsUnsigned(n) ==
  IF n.number = "unsigned" THEN n.value ELSE n.value.a \div n.value.b
\* the number read as a float
AsFloat(n) == IF n.number = "float" THEN n.value ELSE FloatOf(n.value)

\* get_numeric_value_from_json(json, name, value): false when json has no
\* number called name
get_numeric_value_from_json(json, name) ==
  IF name \in DOMAIN json /\ "number" \in DOMAIN json[name]
  THEN [ok |-> TRUE, value |-> AsUnsigned(json[name])]
  ELSE [ok |-> FALSE, value |-> 0]

\* get_bool_value_from_json(json, name, value): the value is read with
\* get_numeric_value_from_json, so it is false when json has no number called
\* name, a json boolean included; a number is true when it is not 0
get_bool_value_from_json(json, name) ==
  IF ~get_numeric_value_from_json(json, name).ok THEN [ok |-> FALSE, value |-> FALSE]
  ELSE [ok |-> TRUE, value |-> get_numeric_value_from_json(json, name).value # 0]

\* get_modeltype_value_from_json(json, name, value): the number cast to
\* ml_model_type, which is no enumerator for a number above 1
get_modeltype_value_from_json(json, name) ==
  IF ~get_numeric_value_from_json(json, name).ok THEN [ok |-> FALSE, value |-> "neither"]
  ELSE IF get_numeric_value_from_json(json, name).value < Len(ml_model_type)
  THEN [ok |-> TRUE,
        value |-> EnumOf(ml_model_type, get_numeric_value_from_json(json, name).value)]
  ELSE [ok |-> TRUE, value |-> "neither"]

\* get_float_value_from_json(json, name, value): the value is 0 when json has
\* no number called name
get_float_value_from_json(json, name) ==
  IF name \in DOMAIN json THEN AsFloat(json[name]) ELSE FloatOf(0)

\* json anode = {{"id", ..}, {"nt", ..}, {"fi", ..}, {"ft", ..}, {"fv", ..}}:
\* the operands of the conditional for "fv" are a float and an unsigned, so
\* its value is a float for either kind of feature
anode(node, node_id) ==
  [id |-> JsonUnsigned(node_id),
   nt |-> JsonFloat(FloatOf(EnumValue(dt_node_type, node.node_type))),
   fi |-> JsonUnsigned(node.feature_index),
   ft |-> JsonFloat(FloatOf(EnumValue(ml_feature_type, node.feature_type))),
   fv |-> JsonFloat(IF node.feature_type = "continuous"
                    THEN continuous_value(node.feature_value)
                    ELSE FloatOf(discrete_value_index(node.feature_value)))]

\* anode["lid"], anode["lop"] of a node with a left child, whose id is the
\* counter after ++node_id
LeftFields(node, node_id) ==
  IF node.split_left_node = NullNode THEN <<>>
  ELSE [lid |-> JsonUnsigned(node_id + 1),
        lop |-> JsonUnsigned(EnumValue(dt_comparison_op, node.split_left_op))]

\* anode["rid"], anode["rop"] of a node with a right child; node_id is the
\* counter the left subtree left
RightFields(node, node_id) ==
  IF node.split_right_node = NullNode THEN <<>>
  ELSE [rid |-> JsonUnsigned(node_id + 1),
        rop |-> JsonUnsigned(EnumValue(dt_comparison_op, node.split_right_op))]

\* add_nodes_to_json_object(node, json_nodes, node_id): returns
\* [json_nodes, node_id]; a node is pushed after the nodes below it
RECURSIVE add_nodes_to_json_object(_, _, _)
LeftWritten(node, json_nodes, node_id) ==
  IF node.split_left_node = NullNode
  THEN [json_nodes |-> json_nodes, node_id |-> node_id]
  ELSE add_nodes_to_json_object(node.split_left_node, json_nodes, node_id + 1)

RightWritten(node, l) ==
  IF node.split_right_node = NullNode THEN l
  ELSE add_nodes_to_json_object(node.split_right_node, l.json_nodes, l.node_id + 1)

NodePushed(node, node_id, l, r) ==
  [json_nodes |-> Append(r.json_nodes,
                         anode(node, node_id) @@ LeftFields(node, node_id)
                           @@ RightFields(node, l.node_id)),
   node_id |-> r.node_id]

AfterLeft(node, node_id, l) == NodePushed(node, node_id, l, RightWritten(node, l))

add_nodes_to_json_object(node, json_nodes, node_id) ==
  AfterLeft(node, node_id, LeftWritten(node, json_nodes, node_id))

\* the fields create_tree_node_from_json reads into a new node
NodeRead(json_node) ==
  [NewNode EXCEPT
     !.node_type = EnumOf(dt_node_type, get_numeric_value_from_json(json_node, "nt").value),
     !.feature_type = EnumOf(ml_feature_type, get_numeric_value_from_json(json_node, "ft").value),
     !.feature_index = get_numeric_value_from_json(json_node, "fi").value,
     !.feature_value =
        IF get_numeric_value_from_json(json_node, "ft").value = 0
        THEN get_float_value_from_json(json_node, "fv")
        ELSE IF get_numeric_value_from_json(json_node, "fv").ok
             THEN DV(get_numeric_value_from_json(json_node, "fv").value)
             ELSE EmptyValue]

SplitRead(json_node) ==
  [NodeRead(json_node) EXCEPT
     !.split_left_op = EnumOf(dt_comparison_op, get_numeric_value_from_json(json_node, "lop").value),
     !.split_right_op = EnumOf(dt_comparison_op, get_numeric_value_from_json(json_node, "rop").value)]

\* create_tree_node_from_json(node, node_id, nodes_map, nodes, leaves):
\* returns [ok, node, nodes, leaves]
RECURSIVE create_tree_node_from_json(_, _, _, _)
RightCreated(node, r) ==
  [ok |-> r.ok, node |-> [node EXCEPT !.split_right_node = r.node],
   nodes |-> r.nodes, leaves |-> r.leaves]

LeftCreated(node, json_node, nodes_map, l) ==
  IF ~l.ok
  THEN [ok |-> FALSE, node |-> [node EXCEPT !.split_left_node = l.node],
        nodes |-> l.nodes, leaves |-> l.leaves]
  ELSE RightCreated([node EXCEPT !.split_left_node = l.node],
         create_tree_node_from_json(
           get_numeric_value_from_json(json_node, "rid").value,
           nodes_map, l.nodes, l.leaves))

NodeCreated(json_node, nodes_map, nodes, leaves) ==
  IF \E name \in {"nt", "fi", "ft"} : ~get_numeric_value_from_json(json_node, name).ok
  THEN [ok |-> FALSE, node |-> NewNode, nodes |-> nodes, leaves |-> leaves]
  ELSE IF NodeRead(json_node).node_type = "leaf"
  THEN [ok |-> TRUE, node |-> NodeRead(json_node), nodes |-> nodes,
        leaves |-> leaves + 1]
  ELSE IF \E name \in {"lid", "lop", "rid", "rop"} :
            ~get_numeric_value_from_json(json_node, name).ok
  THEN [ok |-> FALSE, node |-> NodeRead(json_node), nodes |-> nodes,
        leaves |-> leaves]
  ELSE LeftCreated(SplitRead(json_node), json_node, nodes_map,
         create_tree_node_from_json(
           get_numeric_value_from_json(json_node, "lid").value,
           nodes_map, nodes, leaves))

create_tree_node_from_json(node_id, nodes_map, nodes, leaves) ==
  IF node_id \notin DOMAIN nodes_map
  THEN [ok |-> FALSE, node |-> NullNode, nodes |-> nodes, leaves |-> leaves]
  ELSE NodeCreated(nodes_map[node_id], nodes_map, nodes + 1, leaves)

\* nodes_map[node_id] = json_node for the nodes of the array in turn: a later
\* node replaces an earlier one of the same id
nodes_map_of(nodes_array) ==
  [node_id \in { AsUnsigned(nodes_array[i].id) : i \in DOMAIN nodes_array } |->
     nodes_array[CHOOSE i \in DOMAIN nodes_array :
                   /\ AsUnsigned(nodes_array[i].id) = node_id
                   /\ \A j \in DOMAIN nodes_array :
                        AsUnsigned(nodes_array[j].id) = node_id => j <= i]]

\* the members of the tree json that create_decision_tree_from_json reads
\* into the tree, in the order it reads them
TreeMembers ==
  <<"type", "index_of_feature_to_predict", "max_tree_depth", "min_leaf_instances",
    "features_to_consider_per_node", "seed", "keep_instances_at_leaf_nodes">>

\* the getter create_decision_tree_from_json reads the member with
MemberGot(json_object, name) ==
  CASE name = "type" -> get_modeltype_value_from_json(json_object, name)
    [] name = "keep_instances_at_leaf_nodes" -> get_bool_value_from_json(json_object, name)
    [] OTHER -> get_numeric_value_from_json(json_object, name)

MemberRead(tree, name, value) ==
  CASE name = "type" -> [tree EXCEPT !.type_ = value]
    [] name = "index_of_feature_to_predict" ->
         [tree EXCEPT !.index_of_feature_to_predict_ = value]
    [] name = "max_tree_depth" -> [tree EXCEPT !.max_tree_depth_ = value]
    [] name = "min_leaf_instances" -> [tree EXCEPT !.min_leaf_instances_ = value]
    [] name = "features_to_consider_per_node" ->
         [tree EXCEPT !.features_to_consider_per_node_ = value]
    [] name = "seed" -> [tree EXCEPT !.seed_ = value]
    [] name = "keep_instances_at_leaf_nodes" ->
         [tree EXCEPT !.keep_instances_at_leaf_nodes_ = value]

\* the chain of getters joined by &&: it stops at the first one that fails
RECURSIVE MembersRead(_, _, _)
MembersRead(json_object, tree, i) ==
  IF i > Len(TreeMembers) THEN [ok |-> TRUE, tree |-> tree]
  ELSE IF ~MemberGot(json_object, TreeMembers[i]).ok
  THEN [ok |-> FALSE, tree |-> tree]
  ELSE MembersRead(json_object,
         MemberRead(tree, TreeMembers[i], MemberGot(json_object, TreeMembers[i]).value),
         i + 1)

RootCreated(tree, r) ==
  [ok |-> r.ok,
   tree |-> [tree EXCEPT !.root_ = r.node, !.nodes_ = r.nodes, !.leaves_ = r.leaves]]

NodesRead(json_object, tree) ==
  IF "nodes" \notin DOMAIN json_object THEN [ok |-> FALSE, tree |-> tree]
  ELSE IF \E i \in DOMAIN json_object.nodes : "id" \notin DOMAIN json_object.nodes[i]
  THEN [ok |-> FALSE, tree |-> tree]
  ELSE IF json_object.nodes = <<>> THEN [ok |-> FALSE, tree |-> tree]
  ELSE RootCreated(tree,
         create_tree_node_from_json(0, nodes_map_of(json_object.nodes),
                                    tree.nodes_, tree.leaves_))

MembersThenNodes(json_object, m) ==
  IF ~m.ok THEN m ELSE NodesRead(json_object, m.tree)

\* what create_decision_tree_from_json returns when it returns
Returned(r) == [ok |-> r.ok, killed |-> FALSE, tree |-> r.tree]

\* create_decision_tree_from_json(json_object): returns [ok, killed, tree].
\* json_object["object"] of a constant json without that member does not
\* return: the json library's assertion fails and the process is aborted
create_decision_tree_from_json(json_object, tree) ==
  IF json_object = <<>> THEN Returned([ok |-> FALSE, tree |-> tree])
  ELSE IF "object" \notin DOMAIN json_object
  THEN [ok |-> FALSE, killed |-> TRUE, tree |-> tree]
  ELSE IF json_object.object # "decision_tree"
  THEN Returned([ok |-> FALSE, tree |-> tree])
  ELSE Returned(MembersThenNodes(json_object, MembersRead(json_object, tree, 1)))

\* the tree json decision_tree::save writes
json_tree(tree) ==
  [version |-> ML_VERSION_STRING,
   object |-> "decision_tree",
   type |-> JsonFloat(FloatOf(EnumValue(ml_model_type, tree.type_))),
   index_of_feature_to_predict |-> JsonUnsigned(tree.index_of_feature_to_predict_),
   max_tree_depth |-> JsonUnsigned(tree.max_tree_depth_),
   min_leaf_instances |-> JsonUnsigned(tree.min_leaf_instances_),
   features_to_consider_per_node |-> JsonUnsigned(tree.features_to_consider_per_node_),
   seed |-> JsonUnsigned(tree.seed_),
   keep_instances_at_leaf_nodes |-> JsonBool(tree.keep_instances_at_leaf_nodes_),
   nodes |-> add_nodes_to_json_object(tree.root_, <<>>, 0).json_nodes]

\* the files of a model directory: whether tree.json and mlid.json stand in
\* it and what they hold; none before a save
NoFiles == [has_json |-> FALSE, json_object |-> <<>>, has_mlid |-> FALSE, mlid |-> <<>>]

\* decision_tree::save(path, part_of_ensemble) over the files at path: returns
\* [ok, files].  A tree of an ensemble writes its json alone.  A single tree
\* writes its json and its instance definition into a directory made anew;
\* prepared tells whether prepare_directory_for_model_save made it, and
\* nothing is written, yet true returned, when it did not
save(tree, part_of_ensemble, prepared, files) ==
  IF tree.mlid_ = <<>> \/ tree.root_ = NullNode THEN [ok |-> FALSE, files |-> files]
  ELSE IF part_of_ensemble
  THEN [ok |-> TRUE,
        files |-> [files EXCEPT !.has_json = TRUE, !.json_object = json_tree(tree)]]
  ELSE IF prepared
  THEN [ok |-> TRUE,
        files |-> [has_json |-> TRUE, json_object |-> json_tree(tree),
                   has_mlid |-> TRUE, mlid |-> tree.mlid_]]
  ELSE [ok |-> TRUE, files |-> files]

\* decision_tree::restore(path, mlid) over the files at path: returns
\* [ok, killed, tree].  jsonfile >> json_object of a file that is not there
\* does not return: the json library throws its parse error, which nothing
\* catches
restore_with_mlid(files, mlid, tree) ==
  IF ~files.has_json THEN [ok |-> FALSE, killed |-> TRUE, tree |-> tree]
  ELSE create_decision_tree_from_json(files.json_object,
         [tree EXCEPT !.mlid_ = mlid, !.root_ = NullNode, !.leaves_ = 0,
                      !.nodes_ = 0, !.feature_importance_ = <<>>])

\* decision_tree::restore(path): false when the instance definition cannot
\* be read from the directory
restore(files, tree) ==
  IF ~files.has_mlid THEN [ok |-> FALSE, killed |-> FALSE, tree |-> tree]
  ELSE restore_with_mlid(files, files.mlid, tree)

\* ------------------------------------------------- persistence of a forest
\* the forest's directory: whether it exists, whether mlid.json and rf.json
\* stand in it, what they hold, the trees of the tree files, and whether a
\* file that is none of these stands in it
NoDirectory ==
  [exists |-> FALSE, written |-> FALSE, mlid |-> <<>>, rf_json |-> <<>>,
   trees |-> <<>>, stray |-> FALSE]

\* the type is written as the number of its enumerator and cast back from it
_rf_createJSONObjectWithBaseInfoFromRandomForest(forest) ==
  [object |-> "rf_forest", type |-> forest.type,
   index_of_feature_to_predict |-> forest.index_of_feature_to_predict]

\* returns [ok, forest]; the type is set before the index is looked for
_rf_fillRandomForestWithBaseInfoFromJSONObject(json_object, forest) ==
  IF json_object = <<>> THEN [ok |-> FALSE, forest |-> forest]
  ELSE IF "object" \notin DOMAIN json_object \/ json_object.object # "rf_forest"
       THEN [ok |-> FALSE, forest |-> forest]
  ELSE IF "type" \notin DOMAIN json_object THEN [ok |-> FALSE, forest |-> forest]
  ELSE IF "index_of_feature_to_predict" \notin DOMAIN json_object
       THEN [ok |-> FALSE, forest |-> [forest EXCEPT !.type = json_object.type]]
  ELSE [ok |-> TRUE,
        forest |-> [forest EXCEPT
                      !.type = json_object.type,
                      !.index_of_feature_to_predict =
                         json_object.index_of_feature_to_predict]]

\* rm -f dir/*.json, or mkdir: a file that is no json file stays
DirectoryCleared(dir) == [NoDirectory EXCEPT !.exists = TRUE, !.stray = dir.stray]

\* mlid.json, rf.json and one file for each tree of the forest
DirectoryWritten(dir, mlid, forest) ==
  [dir EXCEPT !.written = TRUE, !.mlid = mlid,
              !.rf_json = _rf_createJSONObjectWithBaseInfoFromRandomForest(forest),
              !.trees = forest.trees]

\* rf_writeRandomForestToDirectory(path_to_dir, mlid, forest,
\* overwrite_existing) over the directory dir; returns [ok, dir].  The calls
\* of the file system succeed
rf_writeRandomForestToDirectory(path_to_dir, mlid, forest, overwrite_existing, dir) ==
  IF path_to_dir = "." \/ path_to_dir = ".." THEN [ok |-> FALSE, dir |-> dir]
  ELSE IF dir.exists /\ ~overwrite_existing THEN [ok |-> FALSE, dir |-> dir]
  ELSE [ok |-> TRUE, dir |-> DirectoryWritten(DirectoryCleared(dir), mlid, forest)]

\* the files readdir yields besides rf.json and mlid.json: the tree files,
\* and the file that is no tree
DirectoryEntries(dir) ==
  [i \in DOMAIN dir.trees |-> [tree |-> dir.trees[i]]]
    \o (IF dir.stray THEN << [stray |-> TRUE] >> ELSE <<>>)

\* dt_readDecisionTreeFromFile(full_path, tree): the tree a tree file was
\* written from; false for a file that is no tree
dt_readDecisionTreeFromFile(file) ==
  IF "tree" \in DOMAIN file THEN [ok |-> TRUE, tree |-> file.tree]
  ELSE [ok |-> FALSE, tree |-> dt_tree("", NullNode)]

\* the loop over the directory: each file is parsed and its tree pushed onto
\* forest.trees, up to the first file that fails to parse
RECURSIVE ReadTreeFiles(_, _)
ReadTreeFiles(entries, forest) ==
  IF entries = <<>> THEN [ok |-> TRUE, forest |-> forest]
  ELSE IF ~dt_readDecisionTreeFromFile(Head(entries)).ok
       THEN [ok |-> FALSE, forest |-> forest]
       ELSE ReadTreeFiles(Tail(entries),
              [forest EXCEPT !.trees =
                 Append(@, dt_readDecisionTreeFromFile(Head(entries)).tree)])

NoDefinition == <<>>

BaseInfoRead(dir, entries, mlid, filled) ==
  IF ~filled.ok THEN [ok |-> FALSE, mlid |-> dir.mlid, forest |-> filled.forest]
  ELSE [ok |-> ReadTreeFiles(entries, filled.forest).ok, mlid |-> dir.mlid,
        forest |-> ReadTreeFiles(entries, filled.forest).forest]

\* rf_readRandomForestFromDirectory(path_to_dir, mlid, forest) over the
\* directory dir whose files readdir yields as entries; returns
\* [ok, mlid, forest].  forest.trees is not cleared before the trees are
\* pushed
rf_readRandomForestFromDirectory(dir, entries, mlid, forest) ==
  IF ~dir.written THEN [ok |-> FALSE, mlid |-> mlid, forest |-> forest]
  ELSE BaseInfoRead(dir, entries, mlid,
         _rf_fillRandomForestWithBaseInfoFromJSONObject(dir.rf_json, forest))

\* ------------------------------------------------------------- state machine
VARIABLES
  tree,        \* the decision_tree object
  mld,         \* the caller's dataset
  trained_on,  \* the dataset of the last successful train, NoData before it
  trained_with, \* the build parameters the tree had at that train
  forest,      \* the rf_forest structure
  build,       \* the rf_buildRandomForest call: its arguments, locals and threads
  ret,         \* what the last call returned
  model_dir    \* the files of the directory trees are saved to

vars == << tree, mld, trained_on, trained_with, forest, build, ret, model_dir >>

NoData == << <<>> >>
NoParameters == <<>>

\* the parameters a tree is built from: what the constructor is given, and
\* what set_seed and set_max_tree_depth change afterwards
BuildParameters(t) ==
  [mlid_ |-> t.mlid_,
   index_of_feature_to_predict_ |-> t.index_of_feature_to_predict_,
   max_tree_depth_ |-> t.max_tree_depth_,
   min_leaf_instances_ |-> t.min_leaf_instances_,
   features_to_consider_per_node_ |-> t.features_to_consider_per_node_,
   seed_ |-> t.seed_,
   keep_instances_at_leaf_nodes_ |-> t.keep_instances_at_leaf_nodes_]

\* rf_forest forest = {}
NoForest == [index_of_feature_to_predict |-> 0, type |-> "classification",
             trees |-> <<>>]

\* rf_build_config rfbc = {}
NoConfig ==
  [number_of_threads |-> 0, number_of_trees |-> 0, index_of_feature_to_predict |-> 0,
   max_tree_depth |-> 0, max_continuous_feature_splits |-> 0,
   features_to_consider_per_node |-> 0, seed |-> 0]

\* no rf_buildRandomForest call made yet.  pc is "idle" between calls and
\* "workers" from the creation of the threads to their joining; mlid, rfbc and
\* oob_for_mld are the arguments of the call, forest_before the trees the
\* forest held when it was made; thread_config, oobs are its locals and
\* samples lists, tree by tree, the indices each bootstrap drew
NoBuild ==
  [pc |-> "idle", mlid |-> <<>>, rfbc |-> NoConfig, oob_for_mld |-> NoVector,
   forest_before |-> <<>>, thread_config |-> <<>>, oobs |-> <<>>, samples |-> <<>>]

ModelTypes == {"classification", "regression"}

\* what a type_ that was never assigned, or was read out of bounds, can hold:
\* an enumerator of ml_model_type or a bit pattern that is neither
UndefinedTypes == ModelTypes \cup {"neither"}

SeqsUpTo(S, n) == UNION { [1..k -> S] : k \in 1..n }

\* the values of the predicted column, and of the other columns
TargetValues == {1, 2}
FeatureValues == 0..MaxVal

\* instances as wide as the definition: column p is the predicted feature
InstancesOf(mlid, p, fvals) ==
  { inst \in [1..Len(mlid) -> fvals \cup TargetValues] :
      /\ inst[p + 1] \in TargetValues
      /\ \A f \in DOMAIN inst : f # p + 1 => inst[f] \in fvals }

\* the definitions of two columns with the index of the predicted one:
\* classification and regression, each on a continuous and on a discrete feature
NarrowCases ==
  { << <<"continuous", "discrete">>, 0 >>, << <<"continuous", "discrete">>, 1 >>,
    << <<"discrete", "discrete">>, 1 >>, << <<"continuous", "continuous">>, 1 >> }

TreeDepths == {0, 1, 2}

\* max_tree_depth and min_leaf_instances of the narrow trees
TreeLimits == { <<0, 1>>, <<1, 1>>, <<1, 2>>, <<2, 1>>, <<2, 2>> }

\* how a call of the constructor that takes the index ended.  With the index
\* beyond the definition the read of mlid_[index]->type is out of bounds: it
\* may return what it finds or kill the process.  An empty definition holds
\* no storage at all, the read is one through a null pointer and kills the
\* process.  The members are then the ones initialised before the read and
\* no call is made any more
ConstructorOutcomes(mlid, index_of_feature_to_predict) ==
  IF mlid = <<>> THEN { [op |-> "killed"] }
  ELSE IF index_of_feature_to_predict >= Len(mlid)
  THEN { [op |-> "none"], [op |-> "killed"] }
  ELSE { [op |-> "none"] }

\* a tree over two columns, every feature considered at every node
InitNarrow ==
  \E c \in NarrowCases :
    \E d \in SeqsUpTo(InstancesOf(c[1], c[2], FeatureValues), MaxInst),
       lim \in TreeLimits :
      /\ mld = d
      /\ tree = decision_tree(c[1], c[2], lim[1], lim[2], 0, 1, FALSE, "regression")
      /\ ret \in ConstructorOutcomes(c[1], c[2])

WideDef == <<"continuous", "continuous", "discrete">>

\* a tree over three columns that draws the features to consider at each node
InitWide ==
  \E d \in SeqsUpTo(InstancesOf(WideDef, 2, {0, 1}), MaxInst - 1),
     k \in {1, 2, 3}, seed \in Seeds, depth \in TreeDepths :
    /\ mld = d
    /\ tree = decision_tree(WideDef, 2, depth, 1, k, seed, FALSE, "regression")
    /\ ret \in ConstructorOutcomes(WideDef, 2)

\* the four instances (x=1,A) (x=2,A) (x=10,B) (x=11,B), categories A=1, B=2
ScenarioInstances == { <<1, 1>>, <<2, 1>>, <<10, 2>>, <<11, 2>> }
ScenarioDef == <<"continuous", "discrete">>
ScenarioData ==
  { d \in [1..4 -> ScenarioInstances] : Range(d) = ScenarioInstances }

\* the four-instance scenario, in every order of the instances, the
\* instances kept at the Leaves or not
InitScenario ==
  \E d \in ScenarioData, keep \in BOOLEAN :
    /\ mld = d
    /\ tree = decision_tree(ScenarioDef, 1, 2, 1, 0, 1, keep, "regression")
    /\ ret \in ConstructorOutcomes(ScenarioDef, 1)

\* configurations train rejects: the predicted index out of range (type_ is
\* then read out of bounds), or no minimum leaf size
InitInvalid ==
  \E d \in SeqsUpTo(InstancesOf(ScenarioDef, 1, {0, 1}), 2),
     p \in {1, 2}, minleaf \in {0, 1}, ut \in UndefinedTypes :
    /\ p = 2 \/ minleaf = 0
    /\ p = 1 => ut = "classification"
    /\ mld = d
    /\ tree = decision_tree(ScenarioDef, p, 1, minleaf, 0, 1, FALSE, ut)
    /\ ret \in ConstructorOutcomes(ScenarioDef, p)

\* decision_tree(): no definition, every count zero, type_ never assigned;
\* nothing is read
InitDefault ==
  \E d \in SeqsUpTo(InstancesOf(ScenarioDef, 1, {0, 1}), 1), ut \in UndefinedTypes :
    /\ mld = d
    /\ tree = decision_tree(<<>>, 0, 0, 0, 0, ML_DEFAULT_SEED, FALSE, ut)
    /\ ret = [op |-> "none"]

\* the constructor that takes the index, called with an empty definition
InitEmptyDefinition ==
  \E d \in SeqsUpTo(InstancesOf(ScenarioDef, 1, {0, 1}), 1), p \in {0, 1},
     ut \in UndefinedTypes :
    /\ mld = d
    /\ tree = decision_tree(<<>>, p, 1, 1, 0, 1, FALSE, ut)
    /\ ret \in ConstructorOutcomes(<<>>, p)

Init ==
  /\ \/ InitNarrow \/ InitWide \/ InitScenario \/ InitInvalid \/ InitDefault
     \/ InitEmptyDefinition
  /\ trained_on = NoData
  /\ trained_with = NoParameters
  /\ forest = NoForest
  /\ build = NoBuild
  /\ model_dir = NoFiles

\* the process runs: no call has killed it
Running == ret.op # "killed"

\* the dataset with the last column of every instance missing
Narrow(d) == [i \in DOMAIN d |-> SubSeq(d[i], 1, Len(d[i]) - 1)]


TrainReturns(d, r) ==
  /\ tree' = r.tree
  /\ ret' = [op |-> "train", data |-> d, ok |-> r.ok]
  /\ trained_on' = IF r.ok THEN d ELSE trained_on
  /\ trained_with' = IF r.ok THEN BuildParameters(tree) ELSE trained_with
  /\ UNCHANGED << mld, forest, build, model_dir >>

\* ok = tree.train(d)
Train ==
  \E d \in {mld, <<>>, Narrow(mld)} :
    /\ Running
    /\ tree.rng_.draws <= MaxDraws
    /\ TrainReturns(d, train(d, tree))

\* value = tree.evaluate(instance)
Evaluate ==
  \E instance \in {mld[1], Narrow(mld)[1]} :
    /\ Running
    /\ ret' = [op |-> "evaluate", instance |-> instance,
               value |-> evaluate(tree, instance)]
    /\ UNCHANGED << tree, mld, trained_on, trained_with, forest, build, model_dir >>

\* tree.set_seed(seed)
SetSeed ==
  \E seed \in Seeds :
    /\ Running
    /\ tree' = set_seed(tree, seed)
    /\ ret' = [op |-> "set_seed", seed |-> seed]
    /\ UNCHANGED << mld, trained_on, trained_with, forest, build, model_dir >>

\* tree.set_max_tree_depth(depth)
SetMaxTreeDepth ==
  \E depth \in TreeDepths :
    /\ Running
    /\ tree' = set_max_tree_depth(tree, depth)
    /\ ret' = [op |-> "set_max_tree_depth", depth |-> depth]
    /\ UNCHANGED << mld, trained_on, trained_with, forest, build, model_dir >>

Next == Train \/ Evaluate \/ SetSeed \/ SetMaxTreeDepth

Spec == Init /\ [][Next]_vars

\* the orders of the elements of S, as sequences
RECURSIVE OrdersOver(_)
OrdersOver(S) ==
  IF S = {} THEN { <<>> }
  ELSE UNION { { Append(order, x) : order \in OrdersOver(S \ {x}) } : x \in S }

\* the orders n things can be presented in
Orders(n) == OrdersOver(1..n)

\* ------------------------------------------------- forest evaluation machine
LeafOf(ftype, v) ==
  [NewNode EXCEPT !.node_type = "leaf", !.feature_index = 1,
                  !.feature_type = ftype, !.feature_value = v]

\* a Split on the continuous feature 0 at 1/2 over two Leaves
StumpOf(l, r) ==
  [NewNode EXCEPT !.feature_value = CVRat(Rat(1, 2)),
                  !.split_left_op = "lessthanorequal", !.split_left_node = l,
                  !.split_right_op = "greaterthan", !.split_right_node = r]

\* the values the trees of a forest of this type predict
ForestValues(type) ==
  IF type = "classification" THEN { DV(0), DV(1), DV(2) }
  ELSE { CVRat(Rat(0, 1)), CVRat(Rat(1, 1)), CVRat(Rat(1, 2)) }

ForestFeatureType(type) ==
  IF type = "classification" THEN "discrete" ELSE "continuous"

\* the trees a forest of this type may hold: single Leaves, a tree of one
\* Split, and a tree without a root
ForestTrees(type) ==
  { dt_tree("", LeafOf(ForestFeatureType(type), v)) : v \in ForestValues(type) }
    \cup { dt_tree("", NullNode) }
    \cup { dt_tree("", StumpOf(LeafOf(ForestFeatureType(type), l),
                               LeafOf(ForestFeatureType(type), r))) :
             l \in { IF type = "classification" THEN DV(1) ELSE CVRat(Rat(1, 1)) },
             r \in { IF type = "classification" THEN DV(2) ELSE CVRat(Rat(2, 1)) } }

ForestInstances == << <<0, 1>>, <<1, 2>> >>

\* what the caller's prediction holds before the call
CallerPredictions(type) ==
  { EmptyValue, IF type = "classification" THEN DV(2) ELSE CVRat(Rat(2, 1)) }

\* a forest put together tree by tree, and a decision_tree never trained;
\* the forest's directory does not exist, or holds a file that is no model
InitForest ==
  /\ \E type \in ModelTypes :
       \E trees \in { <<>> } \cup SeqsUpTo(ForestTrees(type), MaxForestTrees) :
         forest = [index_of_feature_to_predict |-> 1, type |-> type, trees |-> trees]
  /\ mld = ForestInstances
  /\ tree = decision_tree(ScenarioDef, 1, 2, 1, 0, 1, FALSE, "regression")
  /\ trained_on = NoData
  /\ trained_with = NoParameters
  /\ build = NoBuild
  /\ ret = [op |-> "none"]
  /\ model_dir \in { NoDirectory,
                      [NoDirectory EXCEPT !.exists = TRUE, !.stray = TRUE] }

\* what the caller's tree_predictions may hold before the call: nothing is
\* handed in, or a vector that is empty or left over from an earlier call
CallerVectors(type) ==
  { NoVector, VectorOf(<<>>),
    VectorOf(<< IF type = "classification" THEN DV(2) ELSE CVRat(Rat(2, 1)) >>) }

RfEvaluateReturns(instance, handed, r) ==
  /\ ret' = [op |-> "rf_evaluate", instance |-> instance, handed |-> handed,
             ok |-> r.ok, prediction |-> r.prediction,
             tree_predictions |-> r.tree_predictions]
  /\ UNCHANGED << tree, mld, trained_on, trained_with, forest, build, model_dir >>

\* ok = rf_evaluateRandomForestForInstance(mlid, forest, instance, prediction,
\*                                         &tree_predictions)
RfEvaluate ==
  \E instance \in Range(mld), prediction \in CallerPredictions(forest.type),
     tree_predictions \in CallerVectors(forest.type) :
    RfEvaluateReturns(instance, tree_predictions,
                      rf_evaluateRandomForestForInstance(forest, instance, prediction,
                                                         tree_predictions))

\* rf_freeRandomForest(forest)
RfFree ==
  /\ forest' = rf_freeRandomForest(forest)
  /\ ret' = [op |-> "rf_free"]
  /\ UNCHANGED << tree, mld, trained_on, trained_with, build, model_dir >>

RfWriteReturns(r) ==
  /\ model_dir' = r.dir
  /\ ret' = [op |-> "rf_write", ok |-> r.ok]
  /\ UNCHANGED << tree, mld, trained_on, trained_with, forest, build >>

\* ok = rf_writeRandomForestToDirectory(path_to_dir, mlid, forest,
\*                                      overwrite_existing)
RfWrite ==
  \E path_to_dir \in {".", "model"}, overwrite_existing \in BOOLEAN :
    RfWriteReturns(rf_writeRandomForestToDirectory(path_to_dir, tree.mlid_, forest,
                                                   overwrite_existing, model_dir))

RfReadReturns(order, r) ==
  /\ forest' = r.forest
  /\ ret' = [op |-> "rf_read", ok |-> r.ok, mlid |-> r.mlid, order |-> order]
  /\ UNCHANGED << tree, mld, trained_on, trained_with, build, model_dir >>

\* ok = rf_readRandomForestFromDirectory(path_to_dir, mlid, forest), the
\* files of the directory in any order; the forest is kept to MaxForestTrees
RfRead ==
  \E order \in Orders(Len(DirectoryEntries(model_dir))) :
    /\ Len(forest.trees) + Len(model_dir.trees) <= MaxForestTrees
    /\ RfReadReturns(order,
         rf_readRandomForestFromDirectory(model_dir,
           [i \in DOMAIN order |-> DirectoryEntries(model_dir)[order[i]]],
           NoDefinition, forest))

NextForest == RfEvaluate \/ RfFree \/ Evaluate \/ RfWrite \/ RfRead

SpecForest == InitForest /\ [][NextForest]_vars

\* ------------------------------------------------------ forest build machine
BuildDef == <<"continuous", "discrete">>

\* datasets over BuildDef: instance i holds the value i and a category, the
\* categories alternating
BuildData ==
  { [i \in 1..n |-> <<i - 1, 1 + ((i + k) % 2)>>] : n \in 1..MaxInst, k \in {0, 1} }

\* a dataset whose first instance is narrower than the definition
MixedWidthData == << <<0>>, <<1, 2>> >>

\* the thread counts asked for: none, one, a few, more than RF_MAX_THREADS
ThreadCounts == {0, 1, 2, 3, RF_MAX_THREADS + 1}

\* the numbers of features a node considers: all of them, or one drawn from
\* the generator. The dataset of mixed width is built with all of them only:
\* with a feature drawn, one of its samples begins with the wide instance,
\* passes the tree builder's validation and has the builder read a feature
\* the narrow instance does not hold
FeaturesToConsider(data) == IF data \in BuildData THEN {0, 1} ELSE {0}

\* the configurations a forest over data predicting the feature index is
\* built with.  max_continuous_feature_splits is 0, "consider all splits":
\* the builder below takes every split of a continuous feature
BuildConfigs(index, data) ==
  { [number_of_threads |-> threads, number_of_trees |-> trees,
     index_of_feature_to_predict |-> index, max_tree_depth |-> 2,
     max_continuous_feature_splits |-> 0,
     features_to_consider_per_node |-> k, seed |-> 1] :
      threads \in ThreadCounts, trees \in 0..MaxForestTrees,
      k \in FeaturesToConsider(data) }

\* a dataset, an instance definition and the feature the caller's forests
\* predict; no forest built yet
InitBuild ==
  /\ \E d \in BuildData \cup { <<>>, MixedWidthData }, mlid \in { BuildDef, <<>> },
        index \in {0, 1} :
       /\ mlid = <<>> => d = MixedWidthData /\ index = 0
       /\ mld = d
       /\ build = [NoBuild EXCEPT !.mlid = mlid,
                                  !.rfbc.index_of_feature_to_predict = index]
  /\ forest = NoForest
  /\ tree = decision_tree(BuildDef, 1, 2, 1, 0, 1, FALSE, "regression")
  /\ trained_on = NoData
  /\ trained_with = NoParameters
  /\ ret = [op |-> "none"]
  /\ model_dir = NoFiles

\* forest.trees.clear(); the index and the type are set from rfbc and mlid
ForestCleared(rfbc, mlid) ==
  [index_of_feature_to_predict |-> rfbc.index_of_feature_to_predict,
   type |-> IF mlid[rfbc.index_of_feature_to_predict + 1] = "discrete"
            THEN "classification" ELSE "regression",
   trees |-> <<>>]

\* rf_buildRandomForest returns ok, leaving the forest f
BuildReturns(b, ok, f) ==
  /\ build' = [b EXCEPT !.pc = "idle"]
  /\ forest' = f
  /\ ret' = [op |-> "rf_build", ok |-> ok]
  /\ UNCHANGED << tree, mld, trained_on, trained_with, model_dir >>

\* the end of rf_buildRandomForest once a builder has returned
\* built = [ok, trees, oobs, samples]: the out-of-bag error is calculated
\* when the forest was built
ForestWasBuilt(b, f, built) ==
  BuildReturns([b EXCEPT !.oobs = built.oobs, !.samples = built.samples,
                         !.oob_for_mld =
                           IF built.ok
                           THEN _rf_calculateOutOfBagError(mld,
                                  [f EXCEPT !.trees = built.trees], built.oobs, @)
                           ELSE @],
               built.ok, [f EXCEPT !.trees = built.trees])

\* _rf_MultiThreaded_buildRandomForest up to the creation of the threads
ThreadsCreated(b, f) ==
  /\ build' = [b EXCEPT !.pc = "workers",
                        !.thread_config =
                          [t \in 1..b.rfbc.number_of_threads |->
                             rf_thread_config(b.rfbc, t - 1)]]
  /\ forest' = f
  /\ ret' = [op |-> "rf_build_called"]
  /\ UNCHANGED << tree, mld, trained_on, trained_with, model_dir >>

\* rf_buildRandomForest from its call to its return or, in a multi-threaded
\* build, to the creation of the threads
BuildCalled(b) ==
  IF b.mlid = <<>> THEN BuildReturns(b, FALSE, forest)
  ELSE IF b.rfbc.number_of_threads <= 1
  THEN ForestWasBuilt(b, ForestCleared(b.rfbc, b.mlid),
         _rf_SingleThreaded_buildRandomForest(b.rfbc, b.mlid, mld,
           ForestCleared(b.rfbc, b.mlid), <<>>))
  ELSE IF b.rfbc.number_of_threads > RF_MAX_THREADS
          \/ b.rfbc.number_of_threads > b.rfbc.number_of_trees
  THEN BuildReturns(b, FALSE, ForestCleared(b.rfbc, b.mlid))
  ELSE ThreadsCreated(b, ForestCleared(b.rfbc, b.mlid))

\* ok = rf_buildRandomForest(mlid, mld, rfbc, forest, oob_for_mld)
RfBuild ==
  /\ build.pc = "idle"
  /\ \E rfbc \in BuildConfigs(build.rfbc.index_of_feature_to_predict, mld), oob_for_mld \in { NoVector, VectorOf(<<>>) } :
       BuildCalled([build EXCEPT !.rfbc = rfbc, !.oob_for_mld = oob_for_mld,
                                 !.forest_before = forest.trees,
                                 !.thread_config = <<>>, !.oobs = <<>>,
                                 !.samples = <<>>])

\* variant for C15: every thread draws from the generator of thread 0
C15_GeneratorOfThreadZero(thread_config, t) ==
  [thread_config[t] EXCEPT !.dtbc.rng_config = thread_config[1].dtbc.rng_config]

\* the rf_thread_config thread t was created with: &thread_config[t - 1]
ConfigOfThread(thread_config, t) == thread_config[t]

\* a thread makes one pass of the loop of _rf_MultiThreaded_buildTree
RfWorker ==
  /\ build.pc = "workers"
  /\ \E t \in DOMAIN build.thread_config :
       /\ ~build.thread_config[t].returned
       /\ build' = [build EXCEPT !.thread_config[t] =
                      _rf_MultiThreaded_buildTree(
                        ConfigOfThread(build.thread_config, t), build.mlid, mld)]
  /\ UNCHANGED << tree, mld, trained_on, trained_with, forest, ret, model_dir >>

\* every thread is joined; _rf_MultiThreaded_buildRandomForest combines what
\* the threads built and rf_buildRandomForest ends
RfJoin ==
  /\ build.pc = "workers"
  /\ \A t \in DOMAIN build.thread_config : build.thread_config[t].returned
  /\ ForestWasBuilt(build, forest,
       CombineLoop(build.thread_config, 0,
                   [ok |-> TRUE, trees |-> forest.trees, oobs |-> <<>>,
                    samples |-> <<>>]))

NextBuild == RfBuild \/ RfWorker \/ RfJoin

SpecBuild == InitBuild /\ [][NextBuild]_vars

\* ------------------------------------------------------- data split machine
\* training factors, each a fraction ml_float holds exactly; the last is
\* above 0.99
TrainingFactors == { Rat(0, 1), Rat(1, 4), Rat(1, 2), Rat(3, 4), Rat(1, 1) }

\* a dataset of distinct instances, or none
InitSplit ==
  /\ mld \in BuildData \cup { <<>> }
  /\ tree = decision_tree(BuildDef, 1, 2, 1, 0, 1, FALSE, "regression")
  /\ trained_on = NoData
  /\ trained_with = NoParameters
  /\ forest = NoForest
  /\ build = NoBuild
  /\ ret = [op |-> "none"]
  /\ model_dir = NoFiles

SplitReturns(training_factor, seed, r) ==
  /\ mld' = r.mld
  /\ ret' = [op |-> "split", data |-> mld, training_factor |-> training_factor,
             seed |-> seed, training |-> r.training, test |-> r.test]
  /\ UNCHANGED << tree, trained_on, trained_with, forest, build, model_dir >>

\* split_data_into_training_and_test(mld, training_factor, training, test, seed)
SplitData ==
  \E training_factor \in TrainingFactors, seed \in Seeds :
    /\ Running
    /\ SplitReturns(training_factor, seed,
                    split_data_into_training_and_test(mld, training_factor, seed))

ShuffleReturns(seed, r) ==
  /\ mld' = r.vec
  /\ ret' = IF r.killed THEN [op |-> "killed"]
            ELSE [op |-> "shuffle", data |-> mld, seed |-> seed]
  /\ UNCHANGED << tree, trained_on, trained_with, forest, build, model_dir >>

\* ml_rng rng(seed); shuffle_vector(mld, rng)
Shuffle ==
  \E seed \in Seeds :
    /\ Running
    /\ ShuffleReturns(seed, shuffle_vector(mld, ml_rng(seed)))

NextSplit == SplitData \/ Shuffle

SpecSplit == InitSplit /\ [][NextSplit]_vars

\* ---------------------------------------------------------- persistence machine
\* the orders the nodes of an array of n nodes can be presented in
\* the tree json with its nodes in another order
Presented(json_object, order) ==
  [json_object EXCEPT !.nodes = [i \in DOMAIN order |-> json_object.nodes[order[i]]]]

\* the tree json of the files holds an array of nodes
HoldsNodes(files) == files.has_json /\ "nodes" \in DOMAIN files.json_object

\* the directory with the nodes of its tree json in another order
FilesPresented(files, order) ==
  IF ~HoldsNodes(files) THEN files
  ELSE [files EXCEPT !.json_object = Presented(files.json_object, order)]

\* the orders a restore is given the nodes of the directory's tree json in:
\* as they were written, and root first, the reverse of it
OrdersOf(files) ==
  IF ~HoldsNodes(files) THEN { <<>> }
  ELSE { [i \in DOMAIN files.json_object.nodes |-> i],
         [i \in DOMAIN files.json_object.nodes
            |-> Len(files.json_object.nodes) + 1 - i] }

\* the datasets of MaxInst instances over the two columns of c whose feature
\* column holds 0, 1, 2, ... in this order: their trees are a single Leaf, a
\* Split over two Leaves, or a Split whose right child is a Split
JsonData(c) ==
  { d \in [1..MaxInst -> InstancesOf(c[1], c[2], FeatureValues)] :
      \A i \in DOMAIN d : d[i][2 - c[2]] = i - 1 }

\* a tree over two columns, built to depth 1 until set_max_tree_depth is
\* called
InitJsonNarrow ==
  \E c \in NarrowCases :
    \E d \in JsonData(c) :
      /\ mld = d
      /\ tree = decision_tree(c[1], c[2], 1, 1, 0, 1, FALSE, "regression")
      /\ ret \in ConstructorOutcomes(c[1], c[2])

\* a classification tree that keeps the instances at its Leaves
InitJsonKept ==
  \E d \in JsonData(<<ScenarioDef, 1>>) :
    /\ mld = d
    /\ tree = decision_tree(ScenarioDef, 1, 1, 1, 0, 1, TRUE, "regression")
    /\ ret \in ConstructorOutcomes(ScenarioDef, 1)

\* a classification tree of one Split over two Leaves
ForeignTree ==
  [decision_tree(ScenarioDef, 1, 1, 1, 0, 1, FALSE, "regression")
     EXCEPT !.root_ = StumpOf(LeafOf("discrete", DV(1)), LeafOf("discrete", DV(2))),
            !.nodes_ = 3, !.leaves_ = 2]

\* model directories this program did not write: one whose tree.json is a
\* json object that is no model and has no member "object", and one whose
\* tree.json is a tree json in which keep_instances_at_leaf_nodes is the
\* number 0
ForeignFiles ==
  { [has_json |-> TRUE, json_object |-> [version |-> ML_VERSION_STRING],
     has_mlid |-> TRUE, mlid |-> ScenarioDef],
    [has_json |-> TRUE,
     json_object |-> [json_tree(ForeignTree)
                        EXCEPT !.keep_instances_at_leaf_nodes = JsonUnsigned(0)],
     has_mlid |-> TRUE, mlid |-> ScenarioDef] }

\* trees over two columns and a tree without a definition; nothing saved
\* yet, or the directory holds files of another program
InitJson ==
  /\ \/ InitJsonNarrow /\ model_dir = NoFiles
     \/ /\ InitJsonKept \/ InitDefault
        /\ model_dir \in { NoFiles } \cup ForeignFiles
  /\ trained_on = NoData
  /\ trained_with = NoParameters
  /\ forest = NoForest
  /\ build = NoBuild

SaveReturns(r) ==
  /\ model_dir' = r.files
  /\ ret' = [op |-> "save", ok |-> r.ok]
  /\ UNCHANGED << tree, mld, trained_on, trained_with, forest, build >>

\* ok = tree.save(path, part_of_ensemble)
Save ==
  \E part_of_ensemble \in BOOLEAN, prepared \in BOOLEAN :
    /\ Running
    /\ SaveReturns(save(tree, part_of_ensemble, prepared, model_dir))

\* a restore returns ok, or the process is aborted inside it
RestoreReturns(order, r) ==
  /\ tree' = r.tree
  /\ ret' = IF r.killed THEN [op |-> "killed"]
            ELSE [op |-> "restore", ok |-> r.ok, order |-> order]
  /\ trained_on' = IF r.tree = tree THEN trained_on ELSE NoData
  /\ trained_with' = IF r.tree = tree THEN trained_with ELSE NoParameters
  /\ UNCHANGED << mld, forest, build, model_dir >>

\* ok = tree.restore(path), the nodes of the tree json in any order
Restore ==
  \E order \in OrdersOf(model_dir) :
    /\ Running
    /\ RestoreReturns(order, restore(FilesPresented(model_dir, order), tree))

\* ok = tree.restore(path, mlid) with the definition the tree has or the one
\* of the directory, the nodes of the tree json in any order
RestoreWithMlid ==
  \E order \in OrdersOf(model_dir),
     mlid \in { tree.mlid_ } \cup { model_dir.mlid : has \in { model_dir.has_mlid } \ { FALSE } } :
    /\ Running
    /\ RestoreReturns(order,
                      restore_with_mlid(FilesPresented(model_dir, order), mlid, tree))

NextJson == Train \/ Save \/ Restore \/ RestoreWithMlid \/ SetSeed \/ SetMaxTreeDepth

SpecJson == InitJson /\ [][NextJson]_vars


\* ------------------------------------------------------------ tree properties
\* the instances of data a Split node sends to its left child
SentLeft(node, data) ==
  SelectSeq(data, LAMBDA inst :
    instance_satisfies_constraint_of_split(inst, node.feature_index,
        node.feature_type, node.feature_value, node.split_left_op))

SentRight(node, data) ==
  SelectSeq(data, LAMBDA inst :
    ~instance_satisfies_constraint_of_split(inst, node.feature_index,
        node.feature_type, node.feature_value, node.split_left_op))

\* every node below (and including) node, with its depth in edges from the
\* root and the instances of data that reach it
RECURSIVE Reached(_, _, _)
Reached(node, depth, data) ==
  IF node.node_type = "null" THEN {}
  ELSE IF node.node_type = "leaf"
       THEN { [node |-> node, depth |-> depth, data |-> data] }
       ELSE { [node |-> node, depth |-> depth, data |-> data] }
              \cup Reached(node.split_left_node, depth + 1, SentLeft(node, data))
              \cup Reached(node.split_right_node, depth + 1, SentRight(node, data))

\* the nodes of the trained tree, with the training instances that reach each
TreeNodes == Reached(tree.root_, 0, trained_on)
SplitNodes == { n \in TreeNodes : n.node.node_type = "split" }
LeafNodes == { n \in TreeNodes : n.node.node_type = "leaf" }

\* the tree holds the result of a successful train on trained_on, and has
\* the build parameters it was trained with
IsTrained == trained_on # NoData /\ trained_with = BuildParameters(tree)

\* what a node says: a Leaf its value, a Split its feature, threshold,
\* operators and children (the other fields of a Leaf are never read)
RECURSIVE Described(_)
Described(node) ==
  IF node.node_type = "null" THEN NullNode
  ELSE IF node.node_type = "leaf"
       THEN [node_type |-> "leaf", feature_value |-> node.feature_value]
       ELSE [node_type |-> "split",
             feature_index |-> node.feature_index,
             feature_value |-> node.feature_value,
             split_left_op |-> node.split_left_op,
             split_right_op |-> node.split_right_op,
             split_left_node |-> Described(node.split_left_node),
             split_right_node |-> Described(node.split_right_node)]

\* the parts of a tree the determinism contract speaks of
TreeShape(t) ==
  [root |-> Described(t.root_), nodes |-> t.nodes_, leaves |-> t.leaves_]

\* C1: for a fixed dataset and configuration every train call produces the
\* same tree (splits, thresholds, operators, leaf values, node and leaf
\* counts); here: a train call on a tree object that already holds the
\* result of training on the same dataset leaves the tree as it was.
C1_SuccessiveTrainsSameTree ==
  [][(IsTrained /\ ret'.op = "train" /\ tree' # tree /\ trained_on' = trained_on
        /\ ret'.ok)
       => TreeShape(tree') = TreeShape(tree)]_vars

\* the predicted values a Leaf over data would hold differ between the sides
SidesPredictDifferently(parts, t) ==
  config_leaf_node(parts.left, NewNode, t).node.feature_value
    # config_leaf_node(parts.right, NewNode, t).node.feature_value

\* the best split of the training data at the root leaves both sides at
\* least min_leaf_instances_ instances that do not predict the same value
RootSplitStands(fbs, t) ==
  /\ fbs.found
  /\ ~TooFewInstances(perform_split(trained_on, fbs.best_split).left,
                      perform_split(trained_on, fbs.best_split).right, t)
  /\ SidesPredictDifferently(perform_split(trained_on, fbs.best_split), t)

\* C2: with max_tree_depth_ = 0 there is no depth limit: the root is not
\* made a Leaf by the depth rule, it is a Split whenever a split is found
\* whose two sides both hold at least min_leaf_instances_ instances.
C2_ZeroDepthIsUnlimited ==
  (/\ IsTrained
   /\ tree.max_tree_depth_ = 0
   /\ tree.features_to_consider_per_node_ = 0
   /\ RootSplitStands(find_best_split(trained_on,
                         score_region(trained_on, tree), ResetForTraining(tree)),
                      tree))
    => tree.root_.node_type = "split"

\* C3: with max_tree_depth_ = d > 0, every Leaf of a trained tree is at most
\* d edges from the root.
C3_LeavesWithinDepth ==
  (IsTrained /\ tree.max_tree_depth_ > 0)
    => \A n \in LeafNodes : n.depth <= tree.max_tree_depth_

C3_Witness ==
  /\ IsTrained
  /\ tree.max_tree_depth_ = 1
  /\ Len(trained_on) = MaxInst
  /\ \E n \in LeafNodes : n.depth = 1 /\ Len(n.data) = 2
                          /\ Cardinality(Range(Column(tree.index_of_feature_to_predict_, n.data))) = 2

\* C4: every Split of a trained tree divides the instances that reach it
\* into a left and a right set of at least min_leaf_instances_ instances
\* each (so a node whose split would leave a side smaller is a Leaf).
C4_SplitSidesAtLeastMinLeaf ==
  IsTrained
    => \A n \in SplitNodes :
         /\ Len(SentLeft(n.node, n.data)) >= tree.min_leaf_instances_
         /\ Len(SentRight(n.node, n.data)) >= tree.min_leaf_instances_

C4_Witness ==
  /\ IsTrained
  /\ Len(trained_on) = MaxInst
  /\ \E n \in SplitNodes :
       /\ Len(SentLeft(n.node, n.data)) > tree.min_leaf_instances_
       /\ Len(SentRight(n.node, n.data)) = tree.min_leaf_instances_

\* two Leaves predict an identical value: the same category index, or means
\* within the tolerance
SameLeafValue(l, r) ==
  IF tree.type_ = "classification"
  THEN discrete_value_index(l.feature_value) = discrete_value_index(r.feature_value)
  ELSE ContinuousValuesWithinTol(continuous_value(l.feature_value),
                                 continuous_value(r.feature_value))

\* a best split of data exists and leaves both sides large enough, so that
\* a node over data above the depth limit has its two children built
ChildrenBuilt(data, t) ==
  LET fbs == find_best_split(data, RZero, ResetForTraining(t))
  IN  /\ fbs.found
      /\ ~TooFewInstances(perform_split(data, fbs.best_split).left,
                          perform_split(data, fbs.best_split).right, t)

\* C5: after train no Split has two Leaf children that predict an identical
\* value, so the prune check changes no node of a trained tree.
C5_NoTwinLeavesAfterTrain ==
  IsTrained
    => \A n \in SplitNodes :
         /\ ~(/\ n.node.split_left_node.node_type = "leaf"
              /\ n.node.split_right_node.node_type = "leaf"
              /\ SameLeafValue(n.node.split_left_node, n.node.split_right_node))
         /\ prune_twin_leaf_nodes(n.node, tree) =
              [pruned |-> FALSE, node |-> n.node, tree |-> tree]

\* a Split with two Leaf children stands beside a Leaf that took the place
\* of a pruned Split
C5_Witness ==
  /\ IsTrained
  /\ tree.features_to_consider_per_node_ = 0
  /\ tree.root_.node_type = "split"
  /\ \E n \in LeafNodes :
       n.depth # tree.max_tree_depth_ /\ ChildrenBuilt(n.data, tree)
  /\ \E n \in SplitNodes :
       /\ n.node.split_left_node.node_type = "leaf"
       /\ n.node.split_right_node.node_type = "leaf"

\* the values of the predicted feature in data
Targets(data) == Range(Column(tree.index_of_feature_to_predict_, data))

\* C6: when every instance has the same value of the predicted feature,
\* train produces a single Leaf: the root is a Leaf, nodes_ = 1, leaves_ = 1.
C6_SameTargetSingleLeaf ==
  (IsTrained /\ Cardinality(Targets(trained_on)) = 1)
    => /\ tree.root_.node_type = "leaf"
       /\ tree.nodes_ = 1
       /\ tree.leaves_ = 1

\* splits were found and built on the way (two of them on one feature), and
\* all of them were pruned
C6_Witness ==
  /\ IsTrained
  /\ Cardinality(Targets(trained_on)) = 1
  /\ Len(trained_on) = MaxInst
  /\ tree.root_.node_type = "leaf"
  /\ \E i \in DOMAIN tree.feature_importance_ :
       tree.feature_importance_[i].count >= 2

\* the tree was trained on the four instances of the scenario
ScenarioTrained ==
  /\ IsTrained
  /\ trained_on \in ScenarioData
  /\ tree.mlid_ = ScenarioDef
  /\ tree.index_of_feature_to_predict_ = 1
  /\ tree.max_tree_depth_ = 2
  /\ tree.min_leaf_instances_ = 1

\* C7: the four instances (1,A) (2,A) (10,B) (11,B), max depth 2, minimum
\* leaf size 1: exactly one Split, on x with a threshold between 2 and 10,
\* exactly two Leaves predicting A and B, and every one of the four
\* instances evaluates to its own y.
C7_FourInstanceScenario ==
  ScenarioTrained
    => /\ Cardinality(SplitNodes) = 1
       /\ Cardinality(LeafNodes) = 2
       /\ tree.nodes_ = 3
       /\ tree.leaves_ = 2
       /\ tree.root_.node_type = "split"
       /\ tree.root_.feature_index = 0
       /\ IntLessThanCV(2, tree.root_.feature_value)
       /\ IntGreaterThanCV(10, tree.root_.feature_value)
       /\ { n.node.feature_value : n \in LeafNodes } = { DV(1), DV(2) }
       /\ \A i \in DOMAIN trained_on :
            evaluate(tree, trained_on[i]) = DV(trained_on[i][2])

C7_Witness ==
  /\ ScenarioTrained
  /\ ret.op = "evaluate"
  /\ ret.instance = <<10, 2>>
  /\ ret.value = DV(2)

\* the inputs train rejects
InvalidForTraining(t, d) ==
  \/ t.mlid_ = <<>>
  \/ d = <<>>
  \/ \E i \in DOMAIN d : Len(d[i]) < Len(t.mlid_)
  \/ t.index_of_feature_to_predict_ >= Len(t.mlid_)
  \/ t.min_leaf_instances_ = 0

\* C8: train on an empty definition, an empty dataset, instances narrower
\* than the definition, a predicted index out of range or a minimum leaf
\* size of 0 reports failure and leaves the root, the node count, the leaf
\* count and the feature importance as they were.
C8_FailedTrainTouchesNothing ==
  [][(ret'.op = "train" /\ InvalidForTraining(tree, ret'.data))
       => /\ ~ret'.ok
          /\ tree'.root_ = tree.root_
          /\ tree'.nodes_ = tree.nodes_
          /\ tree'.leaves_ = tree.leaves_
          /\ tree'.feature_importance_ = tree.feature_importance_]_vars

\* train failed on a tree that holds the result of an earlier train
C8_Witness ==
  /\ ret.op = "train"
  /\ ~ret.ok
  /\ ret.data = <<>>
  /\ IsTrained
  /\ tree.root_.node_type = "split"
  /\ tree.nodes_ = 3

\* ---------------------------------------------------------- forest properties
\* a prediction whose every bit is zero
ZeroValued(v) == v = EmptyValue \/ v = DV(0) \/ v = CVRat(RZero)

\* C9: evaluating an instance against a tree without a root, and against a
\* forest without trees, returns a zero-valued prediction as a normal result
\* and reports no failure.
C9_EmptyEvaluationReturnsZero ==
  /\ (ret.op = "evaluate" /\ tree.root_ = NullNode) => ZeroValued(ret.value)
  /\ (ret.op = "rf_evaluate" /\ forest.trees = <<>>)
       => ret.ok /\ ZeroValued(ret.prediction)

\* the number of trees of the forest that predict category c for the instance
VotesFor(c, instance) ==
  Cardinality({ i \in DOMAIN forest.trees :
    discrete_value_index(dt_evaluateDecisionTreeForInstance(forest.trees[i], instance)) = c })

\* the categories some tree of the forest predicts for the instance, 
VotedCategories(instance) ==
  { discrete_value_index(dt_evaluateDecisionTreeForInstance(forest.trees[i], instance)) :
      i \in DOMAIN forest.trees }

\* the lowest of the categories with the largest number of votes
LowestMostVoted(instance) ==
  CHOOSE c \in VotedCategories(instance) :
    /\ \A d \in VotedCategories(instance) : VotesFor(d, instance) <= VotesFor(c, instance)
    /\ \A d \in VotedCategories(instance) :
         VotesFor(d, instance) = VotesFor(c, instance) => c <= d

\* C10: the prediction of a classification forest is the category the
\* largest number of trees predict, the lowest category index among those
\* that share the largest count, whatever the order of the trees.
C10_MajorityVoteLowestIndexOnTie ==
  (ret.op = "rf_evaluate" /\ ret.ok /\ forest.type = "classification")
    => ret.prediction = DV(LowestMostVoted(ret.instance))

\* what each tree of the forest predicts for the instance, in forest order
TreeValues(instance) ==
  [i \in DOMAIN forest.trees |->
     dt_evaluateDecisionTreeForInstance(forest.trees[i], instance)]

\* v is the arithmetic mean of the continuous values tp: Len(tp) * v is
\* their sum
IsMeanOf(v, tp) ==
  /\ v.kind = "continuous" /\ v.h = 0
  /\ RMul(Rat(Len(tp), 1), Rat(v.a, v.b))
       = SeqRSum([i \in DOMAIN tp |-> Rat(tp[i].a, tp[i].b)])

\* C11: a successful evaluation of a regression forest of k >= 1 trees
\* returns the arithmetic mean of the k tree predictions, whatever the
\* caller's vector held before the call, and the per-tree predictions it
\* reports when the caller asks for them are those k values in forest order.
C11_RegressionForestMean ==
  (ret.op = "rf_evaluate" /\ ret.ok /\ forest.type = "regression")
    => /\ Len(forest.trees) >= 1
       /\ IsMeanOf(ret.prediction, TreeValues(ret.instance))
       /\ ret.tree_predictions.supplied = ret.handed.supplied
       /\ ret.handed.supplied
            => ret.tree_predictions.values = TreeValues(ret.instance)

\* a regression forest of three trees that predict different values was
\* evaluated with a vector that held a value of an earlier call, and its
\* mean is none of the tree values
C11_Witness ==
  /\ ret.op = "rf_evaluate" /\ ret.ok /\ forest.type = "regression"
  /\ Len(forest.trees) = 3
  /\ ret.handed.supplied /\ ret.handed.values # <<>>
  /\ Cardinality(Range(TreeValues(ret.instance))) >= 2
  /\ ret.prediction \notin Range(TreeValues(ret.instance))

\* the bootstrap samples drawn in the build so far, each as the pair of the
\* indices drawn and the out-of-bag set recorded with the tree
BuiltSamples ==
  { << build.samples[i], build.oobs[i] >> : i \in DOMAIN build.samples }
    \cup UNION { { << build.thread_config[t].samples[i], build.thread_config[t].oobs[i] >> :
                     i \in DOMAIN build.thread_config[t].samples } :
                 t \in DOMAIN build.thread_config }

\* the indices of the dataset that the draws never hit
NeverDrawn(indices) ==
  { k \in 0..(Len(mld) - 1) : \A j \in DOMAIN indices : indices[j] # k }

\* the generator states a bootstrap of the build may start from
BootstrapStarts ==
  { [seed |-> seed, draws |-> draws] :
      seed \in DOMAIN MT19937, draws \in 0..(MaxForestTrees * MaxInst) }

\* s is a bootstrap of the dataset: N references, each to an instance of the
\* dataset, and the out-of-bag set holds the indices drawn zero times
IsBootstrap(s) ==
  /\ Len(s.bootstrapped) = Len(mld)
  /\ Len(s.indices) = Len(mld)
  /\ \A j \in DOMAIN s.indices :
       /\ s.indices[j] \in 0..(Len(mld) - 1)
       /\ s.bootstrapped[j] = mld[s.indices[j] + 1]
  /\ s.oob = NeverDrawn(s.indices)

\* C12: a bootstrap of a dataset of N instances yields exactly N instance
\* references, each to an instance of the dataset, and the out-of-bag set
\* recorded with it is exactly the set of indices drawn zero times.
C12_BootstrapAndOutOfBag ==
  /\ \A p \in BuiltSamples :
       /\ Len(p[1]) = Len(mld)
       /\ \A j \in DOMAIN p[1] : p[1][j] \in 0..(Len(mld) - 1)
       /\ p[2] = NeverDrawn(p[1])
  /\ \A rng_config \in BootstrapStarts :
       IsBootstrap(_rf_bootstrappedSampleFromData(mld, rng_config))

\* a forest was built over the largest dataset, one of its samples drew an
\* instance twice and left another out, and another sample left none out
C12_Witness ==
  /\ ret.op = "rf_build" /\ ret.ok /\ Len(mld) = MaxInst
  /\ \E p \in BuiltSamples :
       /\ p[2] # {}
       /\ \E i, j \in DOMAIN p[1] : i # j /\ p[1][i] = p[1][j]
  /\ \E p \in BuiltSamples : p[2] = {}

\* the last rf_buildRandomForest call was multi-threaded and created threads
ThreadsWereCreated == build.thread_config # <<>>

\* some thread of the build built fewer trees than its share
SomeWorkerFailed ==
  \E t \in DOMAIN build.thread_config :
    /\ build.thread_config[t].returned
    /\ Len(build.thread_config[t].trees) < build.thread_config[t].number_of_trees

\* C13: when a worker fails to build one of its trees, the build reports
\* failure, only after every worker is joined, and the forest handed back
\* holds no trees: those the other workers completed are not left in it.
C13_FailedWorkerLeavesNoTrees ==
  /\ build.pc = "workers" => ret.op # "rf_build" /\ forest.trees = <<>>
  /\ (build.pc = "idle" /\ ThreadsWereCreated /\ SomeWorkerFailed)
       => /\ ret = [op |-> "rf_build", ok |-> FALSE]
          /\ \A t \in DOMAIN build.thread_config : build.thread_config[t].returned
          /\ forest.trees = <<>>

\* C14: a thread count that exceeds the tree count is rejected before any
\* work starts: no worker thread is created, no bootstrap sample is drawn and
\* no tree is built.
C14_MoreThreadsThanTreesRejected ==
  /\ build.pc = "workers"
       => build.rfbc.number_of_threads <= build.rfbc.number_of_trees
  /\ (ret.op = "rf_build"
        /\ build.rfbc.number_of_threads > build.rfbc.number_of_trees)
       => /\ ~ret.ok
          /\ build.thread_config = <<>>
          /\ build.samples = <<>>
          /\ forest.trees = <<>>

\* thread rftc run alone, from where it stands to its return
RECURSIVE RunAlone(_)
RunAlone(rftc) ==
  IF rftc.returned THEN rftc
  ELSE RunAlone(_rf_MultiThreaded_buildTree(rftc, build.mlid, mld))

\* thread rftc run alone for a number of passes
RECURSIVE AloneAfter(_, _)
AloneAfter(rftc, passes) ==
  IF passes = 0 \/ rftc.returned THEN rftc
  ELSE AloneAfter(_rf_MultiThreaded_buildTree(rftc, build.mlid, mld), passes - 1)

\* what the threads of the build leave when each is run alone, one after
\* the other
ThreadsRunAlone ==
  [t \in 1..build.rfbc.number_of_threads |->
     RunAlone(rf_thread_config(build.rfbc, t - 1))]

\* the build, as far as it depends on the threads, is what the dataset, the
\* definition and the configuration alone determine
SameForEveryInterleaving ==
  /\ build.pc = "workers"
       => \A t \in DOMAIN build.thread_config :
            \E passes \in 0..build.rfbc.number_of_trees :
              build.thread_config[t]
                = AloneAfter(rf_thread_config(build.rfbc, t - 1), passes)
  /\ (build.pc = "idle" /\ ThreadsWereCreated)
       => /\ build.thread_config = ThreadsRunAlone
          /\ [ok |-> ret.ok, trees |-> forest.trees, oobs |-> build.oobs,
              samples |-> build.samples]
               = CombineLoop(ThreadsRunAlone, 0,
                             [ok |-> TRUE, trees |-> <<>>, oobs |-> <<>>,
                              samples |-> <<>>])

\* a step taken while the threads run is the step of one thread, which
\* writes its own generator, tree list and out-of-bag list and nothing else
OneThreadWritesItsOwn ==
  (build.pc = "workers" /\ build'.pc = "workers")
    => /\ UNCHANGED << mld, forest, ret >>
       /\ build' = [build EXCEPT !.thread_config = build'.thread_config]
       /\ \E t \in DOMAIN build.thread_config :
            /\ \A u \in DOMAIN build.thread_config \ {t} :
                 build'.thread_config[u] = build.thread_config[u]
            /\ build'.thread_config[t]
                 = [build.thread_config[t] EXCEPT
                      !.dtbc.rng_config = build'.thread_config[t].dtbc.rng_config,
                      !.trees = build'.thread_config[t].trees,
                      !.oobs = build'.thread_config[t].oobs,
                      !.samples = build'.thread_config[t].samples,
                      !.returned = build'.thread_config[t].returned]

\* C15: for a fixed dataset, seed, tree count and thread count of two or
\* more, the multi-threaded build yields the same forest for every
\* interleaving of the workers; each worker reads only the shared dataset and
\* definition and writes only its own generator, tree list and out-of-bag
\* list.
C15_InterleavingsBuildTheSameForest ==
  []SameForEveryInterleaving /\ [][OneThreadWritesItsOwn]_vars

\* a forest of three trees was built by two threads with unequal shares, and
\* its trees are not all the same
C15_Witness ==
  /\ ret = [op |-> "rf_build", ok |-> TRUE]
  /\ build.rfbc.number_of_threads = 2 /\ build.rfbc.number_of_trees = 3
  /\ Len(mld) = MaxInst
  /\ Cardinality(Range(forest.trees)) >= 2

\* the sequences of ss one after the other
RECURSIVE Flatten(_)
Flatten(ss) == IF ss = <<>> THEN <<>> ELSE Head(ss) \o Flatten(Tail(ss))

\* the instances the indices of a sample refer to
SampleOf(indices) == [j \in DOMAIN indices |-> mld[indices[j] + 1]]

\* the tree of that name built from the sample drawn with the indices
TreeOfSample(indices, name) ==
  dt_buildDecisionTree(build.mlid, SampleOf(indices),
                       _rf_fillDTConfig(build.rfbc, 0), dt_tree(name, NullNode)).tree

\* after a successful multi-threaded build the trees and the out-of-bag sets
\* are those of thread 0, then of thread 1, ..., and go together index by index
CombinedInThreadOrder ==
  (build.pc = "idle" /\ ThreadsWereCreated /\ ret.ok)
    => /\ forest.trees
            = Flatten([t \in DOMAIN build.thread_config |-> build.thread_config[t].trees])
       /\ build.oobs
            = Flatten([t \in DOMAIN build.thread_config |-> build.thread_config[t].oobs])
       /\ Len(build.oobs) = Len(forest.trees)
       /\ \A i \in DOMAIN forest.trees :
            /\ forest.trees[i] = TreeOfSample(build.samples[i], forest.trees[i].name)
            /\ build.oobs[i] = NeverDrawn(build.samples[i])

\* nothing is combined while a thread is still to be joined
CombinedAfterJoin ==
  /\ build.pc = "workers" => forest.trees = <<>> /\ build.oobs = <<>>
  /\ (build.pc = "workers" /\ (forest' # forest \/ build'.oobs # build.oobs))
       => \A t \in DOMAIN build.thread_config : build.thread_config[t].returned

\* C16: after a successful multi-threaded build the forest's trees are the
\* trees of worker 0 in build order, then those of worker 1, and so on; the
\* out-of-bag sets are concatenated in the same order, so that the i-th set
\* belongs to the i-th tree; the combination runs only after all workers
\* have been joined.
C16_CombinedInWorkerOrderAfterJoin ==
  []CombinedInThreadOrder /\ [][CombinedAfterJoin]_vars

\* two threads built a forest of three trees, two by thread 0 and one by
\* thread 1, whose out-of-bag sets are not all the same
C16_Witness ==
  /\ ret = [op |-> "rf_build", ok |-> TRUE]
  /\ Len(build.thread_config) = 2
  /\ Len(build.thread_config[1].trees) = 2 /\ Len(build.thread_config[2].trees) = 1
  /\ build.oobs[1] # build.oobs[3]
  /\ forest.trees[1] # forest.trees[3]

\* the trees (by position in the forest) that were built without instance i
BuiltWithout(i) == { j \in DOMAIN forest.trees : i \in build.oobs[j] }

\* the instances (0-based) that some tree was built without
OutOfBagInstances == { i \in 0..(Len(mld) - 1) : BuiltWithout(i) # {} }

\* what tree j of the forest predicts for instance i
TreePrediction(j, i) ==
  dt_evaluateDecisionTreeForInstance(forest.trees[j], mld[i + 1])

\* v is the prediction for instance i of the trees built without it: their
\* mean, or a category that no other category outvotes among them
IsOutOfBagPrediction(v, i) ==
  IF forest.type = "regression"
  THEN /\ v.kind = "continuous" /\ v.h = 0
       /\ \E total \in { RMul(Rat(Cardinality(BuiltWithout(i)), 1), Rat(v.a, v.b)) } :
            \E order \in [1..Cardinality(BuiltWithout(i)) -> BuiltWithout(i)] :
              /\ \A x, y \in DOMAIN order : x # y => order[x] # order[y]
              /\ total = SeqRSum([x \in DOMAIN order |->
                                    Rat(TreePrediction(order[x], i).a,
                                        TreePrediction(order[x], i).b)])
  ELSE /\ v.kind = "discrete"
       /\ \E j \in BuiltWithout(i) : TreePrediction(j, i) = v
       /\ \A w \in { TreePrediction(j, i) : j \in BuiltWithout(i) } :
            Cardinality({ j \in BuiltWithout(i) : TreePrediction(j, i) = w })
              <= Cardinality({ j \in BuiltWithout(i) : TreePrediction(j, i) = v })

\* C17: the out-of-bag prediction for training instance i is computed from
\* exactly the trees whose out-of-bag set contains i; an instance that is in
\* the bag of every tree contributes no out-of-bag prediction.
C17_OutOfBagFromTreesBuiltWithout ==
  (ret.op = "rf_build" /\ ret.ok /\ build.oob_for_mld.supplied)
    => /\ Len(build.oob_for_mld.values) = Cardinality(OutOfBagInstances)
       /\ \A i \in OutOfBagInstances :
            IsOutOfBagPrediction(
              build.oob_for_mld.values[1 + Cardinality({ k \in OutOfBagInstances : k < i })],
              i)

\* a forest of several trees was built with predictions asked for: one
\* instance is in the bag of every tree, and another is out of the bag of
\* some trees only, which predict for it something else than the whole forest
C17_Witness ==
  /\ ret = [op |-> "rf_build", ok |-> TRUE]
  /\ build.oob_for_mld.supplied
  /\ Len(forest.trees) >= 2
  /\ \E i \in 0..(Len(mld) - 1) : BuiltWithout(i) = {}
  /\ \E i \in OutOfBagInstances :
       /\ BuiltWithout(i) # DOMAIN forest.trees
       /\ rf_evaluateRandomForestForInstance(forest, mld[i + 1], EmptyValue,
                                          NoVector).prediction
            # build.oob_for_mld.values[1 + Cardinality({ k \in OutOfBagInstances : k < i })]

\* C18: after a successful build with an out-of-bag vector supplied, the
\* vector holds exactly one entry per training instance, and entry k is the
\* out-of-bag prediction for instance k.
C18_OneOutOfBagEntryPerInstance ==
  (ret.op = "rf_build" /\ ret.ok /\ build.oob_for_mld.supplied)
    => /\ Len(build.oob_for_mld.values) = Len(mld)
       /\ \A k \in DOMAIN build.oob_for_mld.values :
            /\ BuiltWithout(k - 1) # {}
            /\ IsOutOfBagPrediction(build.oob_for_mld.values[k], k - 1)

\* the number of trees thread t (from 1) is to build
ShareOf(t) == build.thread_config[t].number_of_trees

\* C19: N trees are divided among T workers so that every worker but the
\* first gets floor(N/T) trees and the first gets floor(N/T) + (N mod T); the
\* shares sum to N, and a successful build, single- or multi-threaded,
\* leaves exactly N trees in the forest, none of them from an earlier build.
C19_SharesSumToTreeCount ==
  /\ ThreadsWereCreated
       => /\ Len(build.thread_config) = build.rfbc.number_of_threads
          /\ \A t \in DOMAIN build.thread_config :
               ShareOf(t) = (build.rfbc.number_of_trees \div build.rfbc.number_of_threads)
                              + (IF t = 1
                                 THEN build.rfbc.number_of_trees % build.rfbc.number_of_threads
                                 ELSE 0)
          /\ SeqSum([t \in DOMAIN build.thread_config |-> ShareOf(t)])
               = build.rfbc.number_of_trees
  /\ (ret.op = "rf_build" /\ ret.ok)
       => /\ Len(forest.trees) = build.rfbc.number_of_trees
          /\ Len(build.samples) = build.rfbc.number_of_trees
          /\ \A i \in DOMAIN forest.trees :
               forest.trees[i] = TreeOfSample(build.samples[i], forest.trees[i].name)

\* a forest that held the three trees of an earlier build was built anew
\* by two threads, of three trees in shares of two and one, and holds other
\* trees than before
C19_Witness ==
  /\ ret = [op |-> "rf_build", ok |-> TRUE]
  /\ build.rfbc.number_of_threads = 2 /\ build.rfbc.number_of_trees = 3
  /\ ShareOf(1) = 2 /\ ShareOf(2) = 1
  /\ Len(build.forest_before) = 3
  /\ forest.trees # build.forest_before
  /\ Range(forest.trees) # Range(build.forest_before)

\* the factor is one the function accepts
ValidTrainingFactor(f) == ~RLess(f, RZero) /\ ~RLess(Rat(99, 100), f)

\* n is f * size rounded to the nearest integer, a half rounded up
IsRounded(n, f, size) ==
  /\ 2 * n * f.b <= 2 * f.a * size + f.b
  /\ 2 * f.a * size + f.b < 2 * (n + 1) * f.b

\* C20: split_data_into_training_and_test on a non-empty dataset of N
\* instances with a valid training factor f: training holds round(f * N)
\* instances, test the remaining ones, the two are disjoint and together
\* hold exactly the original instances, and the input mld is empty.
C20_SplitPartitionsAndEmptiesInput ==
  (ret.op = "split" /\ ret.data # <<>> /\ ValidTrainingFactor(ret.training_factor))
    => /\ IsRounded(Len(ret.training), ret.training_factor, Len(ret.data))
       /\ Len(ret.test) = Len(ret.data) - Len(ret.training)
       /\ Range(ret.training) \cap Range(ret.test) = {}
       /\ Range(ret.training) \cup Range(ret.test) = Range(ret.data)
       /\ mld = <<>>

\* ----------------------------------------------------------- split properties
\* the dt_split a Split node was configured from
SplitOfNode(node) ==
  [split_feature_index |-> node.feature_index,
   split_feature_type |-> node.feature_type,
   split_feature_value |-> node.feature_value,
   split_left_op |-> node.split_left_op, split_right_op |-> node.split_right_op,
   left_score |-> RZero, right_score |-> RZero]

\* the integer x is the threshold v
EqualsThreshold(x, v) == ~IntLessThanCV(x, v) /\ ~IntGreaterThanCV(x, v)

\* the evaluator, at a Split, goes on with the left child
WalksLeft(node, inst) ==
  instance_satisfies_constraint_of_split(inst, node.feature_index,
      node.feature_type, node.feature_value, node.split_left_op)

\* C21: at a continuous Split with threshold t an instance whose value equals
\* t satisfies the left constraint and goes left, in the builder's partition
\* and in the evaluator's walk; only values strictly greater than t go right.
C21_EqualToThresholdGoesLeft ==
  IsTrained
    => \A n \in SplitNodes :
         n.node.feature_type = "continuous"
           => /\ n.node.split_left_op = "lessthanorequal"
              /\ n.node.split_right_op = "greaterthan"
              /\ \A i \in DOMAIN n.data :
                   LET x == n.data[i][n.node.feature_index + 1]
                       parts == perform_split(n.data, SplitOfNode(n.node))
                   IN  /\ EqualsThreshold(x, n.node.feature_value)
                         => /\ n.data[i] \in Range(parts.left)
                            /\ WalksLeft(n.node, n.data[i])
                       /\ n.data[i] \in Range(parts.right)
                         => IntGreaterThanCV(x, n.node.feature_value)

\* C22: at a discrete Split on category c the left operator is == and the
\* right operator is !=: the instances whose category index equals c go to
\* the left child and all others to the right child, in the builder's
\* partition and in the evaluator's walk.
C22_EqualCategoryGoesLeft ==
  IsTrained
    => \A n \in SplitNodes :
         n.node.feature_type = "discrete"
           => /\ n.node.split_left_op = "equal"
              /\ n.node.split_right_op = "notequal"
              /\ \A i \in DOMAIN n.data :
                   LET x == n.data[i][n.node.feature_index + 1]
                       parts == perform_split(n.data, SplitOfNode(n.node))
                   IN  IF x = discrete_value_index(n.node.feature_value)
                       THEN /\ n.data[i] \in Range(parts.left)
                            /\ WalksLeft(n.node, n.data[i])
                       ELSE /\ n.data[i] \in Range(parts.right)
                            /\ ~WalksLeft(n.node, n.data[i])

\* the category indices of feature f present in data
LevelsPresent(f, data) == Range(Column(f, data))

\* the category indices the candidates of a discrete feature test
LevelsTested(splits) ==
  { discrete_value_index(splits[i].split_feature_value) : i \in DOMAIN splits }

\* C23: for a discrete feature with three or more distinct category indices
\* present at a node the generator emits one candidate per distinct index
\* present, but never one that tests index 0, the unknown category (no
\* feature of these trees has preserve_missing set: machinelearning.h 111
\* defaults it to false and the tree code never reads it).
C23_UnknownCategoryNeverTested ==
  IsTrained
    => \A n \in TreeNodes :
         \A f \in 0..(Len(tree.mlid_) - 1) :
           (/\ f # tree.index_of_feature_to_predict_
            /\ tree.mlid_[f + 1] = "discrete"
            /\ Cardinality(LevelsPresent(f, n.data)) >= 3)
             => /\ LevelsTested(add_splits_for_discrete_feature(f, n.data))
                     = LevelsPresent(f, n.data) \ {0}
                /\ Len(add_splits_for_discrete_feature(f, n.data))
                     = Cardinality(LevelsPresent(f, n.data) \ {0})
                /\ (n.node.node_type = "split" /\ n.node.feature_index = f)
                     => discrete_value_index(n.node.feature_value) # 0

\* the split candidates of a node over data when every feature is considered
CandidatesAt(data) == SplitsForFeatures(0, data, {}, tree)

\* some candidate's combined score is strictly lower than the score of data
\* left undivided
SomeCandidateImproves(data) ==
  \E i \in DOMAIN CandidatesAt(data) :
    RLess(score_regions_with_split(data, CandidatesAt(data)[i], tree).combined_score,
          score_region(data, tree))

\* C24: the builder chooses a split at a node only if some candidate's
\* combined score is strictly lower than the score of the node's instances
\* left undivided; when no candidate improves on it no split is chosen and
\* the node becomes a Leaf without any feature-importance update.  For the
\* root: with no improving candidate the tree is a single Leaf and every
\* feature's importance is zero.
C24_SplitOnlyOnImprovement ==
  (IsTrained /\ tree.features_to_consider_per_node_ = 0)
    => /\ \A n \in SplitNodes : SomeCandidateImproves(n.data)
       /\ ~SomeCandidateImproves(trained_on)
            => /\ tree.root_.node_type = "leaf"
               /\ \A f \in DOMAIN tree.feature_importance_ :
                    tree.feature_importance_[f] = ZeroImportance

\* the Split nodes of the trained tree that test feature f
SplitsTesting(f) == { n \in SplitNodes : n.node.feature_index = f }

\* the score of a Split node's instances left undivided minus the combined
\* score of its split
ScoreDelta(n) ==
  RSub(score_region(n.data, tree),
       score_regions_with_split(n.data, SplitOfNode(n.node), tree).combined_score)

RECURSIVE SumOfScoreDeltas(_)
SumOfScoreDeltas(ns) ==
  IF ns = {} THEN RZero
  ELSE LET n == CHOOSE m \in ns : TRUE
       IN  RAdd(ScoreDelta(n), SumOfScoreDeltas(ns \ {n}))

\* C25: after train, for every feature f the importance count of f is the
\* number of Split nodes of the final tree that test f, and sum_score_delta
\* of f is the sum over those nodes of the score of the node's undivided
\* instances minus the combined score of its split; nodes that ended up as
\* Leaves (by the minimum-leaf rule or by pruning) contribute nothing.
C25_ImportanceCountsFinalSplits ==
  IsTrained
    => \A f \in 0..(Len(tree.mlid_) - 1) :
         /\ tree.feature_importance_[f + 1].count = Cardinality(SplitsTesting(f))
         /\ tree.feature_importance_[f + 1].sum_score_delta
              = SumOfScoreDeltas(SplitsTesting(f))

\* the features find_best_split generates candidates for, given the features
\* drawn for the node: every feature but the predicted one when none was
\* drawn, else the drawn ones
ConsideredFeatures(t, random_features) ==
  { f \in 0..(Len(t.mlid_) - 1) :
      /\ f # t.index_of_feature_to_predict_
      /\ random_features = {} \/ f \in random_features }

\* the features considered at a node built by t are as C26 says
ConsidersAsConfigured(t) ==
  LET k == t.features_to_consider_per_node_
      F == Len(t.mlid_)
      picked == PickedFeatures(t).random_features
      others == (0..(F - 1)) \ {t.index_of_feature_to_predict_}
  IN  /\ (0 < k /\ k <= F - 1)
        => /\ Cardinality(picked) = k
           /\ picked \subseteq others
           /\ ConsideredFeatures(t, picked) = picked
      /\ k > F - 1 => ConsideredFeatures(t, picked) = others

\* the root built by a train call tests one of the features drawn for it
RootTestsAConsideredFeature ==
  (ret'.op = "train" /\ ret'.ok /\ tree'.root_.node_type = "split")
    => tree'.root_.feature_index
         \in ConsideredFeatures(tree,
               PickedFeatures(ResetForTraining(tree)).random_features)

\* C26: with features_to_consider_per_node_ = k and F features: if
\* 0 < k <= F - 1 the features considered at a node are exactly k distinct
\* indices below F, none of them the predicted feature, and the selection
\* loop ends; if k > F - 1 every feature but the predicted one is
\* considered.  Checked for the generator state of every tree that can be
\* reached, and on the root every train call builds.
C26_FeaturesConsideredPerNode ==
  /\ [](tree.mlid_ # <<>> => ConsidersAsConfigured(tree))
  /\ [][RootTestsAConsideredFeature]_vars

\* a tree of depth 1 that draws two of its three features was trained once:
\* three numbers were drawn for its root, one of them passed over, and the
\* root is a Split
C26_Witness ==
  /\ IsTrained
  /\ Len(tree.mlid_) = 3
  /\ tree.features_to_consider_per_node_ = 2
  /\ tree.max_tree_depth_ = 1
  /\ tree.root_.node_type = "split"
  /\ tree.rng_.draws = 3

\* ------------------------------------------------------- structure properties
\* the nodes, and the Leaves, that can be reached from node
RECURSIVE NodesBelow(_)
NodesBelow(node) ==
  IF node.node_type = "null" THEN 0
  ELSE 1 + NodesBelow(node.split_left_node) + NodesBelow(node.split_right_node)

RECURSIVE LeavesBelow(_)
LeavesBelow(node) ==
  IF node.node_type = "null" THEN 0
  ELSE IF node.node_type = "leaf" THEN 1
  ELSE LeavesBelow(node.split_left_node) + LeavesBelow(node.split_right_node)

\* every Split below node has two children and every Leaf has none
RECURSIVE WellFormed(_)
WellFormed(node) ==
  IF node.node_type = "leaf"
  THEN node.split_left_node = NullNode /\ node.split_right_node = NullNode
  ELSE /\ node.node_type = "split"
       /\ node.split_left_node # NullNode
       /\ node.split_right_node # NullNode
       /\ WellFormed(node.split_left_node)
       /\ WellFormed(node.split_right_node)

\* C28: after every successful train every Split has exactly two children
\* and every Leaf none, nodes_ is the number of nodes reachable from the
\* root, leaves_ the number of reachable Leaves, and nodes_ = 2 * leaves_ - 1.
C28_CountsMatchTheTree ==
  IsTrained
    => /\ WellFormed(tree.root_)
       /\ tree.nodes_ = NodesBelow(tree.root_)
       /\ tree.leaves_ = LeavesBelow(tree.root_)
       /\ tree.nodes_ = 2 * tree.leaves_ - 1

\* a tree of three nodes, one of its Leaves standing where a Split with two
\* children was built and pruned
C28_Witness ==
  /\ IsTrained
  /\ tree.features_to_consider_per_node_ = 0
  /\ tree.nodes_ = 3
  /\ tree.leaves_ = 2
  /\ \E n \in LeafNodes :
       n.depth = 1 /\ tree.max_tree_depth_ = 2 /\ ChildrenBuilt(n.data, tree)

\* the nodes the evaluator visits for an instance, from node down to a Leaf
RECURSIVE EvaluationPath(_, _)
EvaluationPath(node, inst) ==
  IF node.node_type = "leaf" THEN << node >>
  ELSE IF WalksLeft(node, inst)
       THEN << node >> \o EvaluationPath(node.split_left_node, inst)
       ELSE << node >> \o EvaluationPath(node.split_right_node, inst)

\* the value a Leaf configured over data predicts: the mean or the mode
LeafValueOver(data) == config_leaf_node(data, NewNode, tree).node.feature_value

\* the Leaves of the trained tree whose training instances include inst
LeavesHolding(inst) == { n \in LeafNodes : inst \in Range(n.data) }

\* C29: building and evaluation route alike: evaluating the trained tree on
\* an instance of the training data ends at exactly one Leaf after visiting
\* each node at most once, the Leaf is the one whose instance set held the
\* instance when it was configured, and the value returned is the mean
\* (regression) or mode (classification) of that set.
C29_EvaluationEndsAtTheBuildersLeaf ==
  IsTrained
    => \A i \in DOMAIN trained_on :
         LET inst == trained_on[i]
             path == EvaluationPath(tree.root_, inst)
         IN  /\ Cardinality(LeavesHolding(inst)) = 1
             /\ Cardinality(Range(path)) = Len(path)
             /\ Len(path) <= tree.nodes_
             /\ \A n \in LeavesHolding(inst) :
                  /\ path[Len(path)] = n.node
                  /\ evaluate(tree, inst) = n.node.feature_value
                  /\ n.node.feature_value = LeafValueOver(n.data)

\* an instance whose value is the threshold of the root was evaluated and
\* got the prediction of the right Leaf, a mean of two instances
C29_Witness ==
  /\ IsTrained
  /\ trained_on = mld
  /\ ret.op = "evaluate"
  /\ ret.instance = mld[1]
  /\ tree.root_.node_type = "split"
  /\ tree.root_.feature_type = "continuous"
  /\ EqualsThreshold(mld[1][tree.root_.feature_index + 1], tree.root_.feature_value)
  /\ tree.root_.split_right_node.node_type = "leaf"
  /\ ret.value = tree.root_.split_right_node.feature_value
  /\ ret.value # tree.root_.split_left_node.feature_value
  /\ Cardinality(LeavesHolding(mld[1])) = 1
  /\ \A n \in LeavesHolding(mld[1]) : Len(n.data) = 2

\* --- worker 0 and the single-threaded builder
\* the single-threaded build of the same dataset, seed and configuration
SingleThreadedBuildOfSame ==
  _rf_SingleThreaded_buildRandomForest(
    [build.rfbc EXCEPT !.number_of_threads = 1], build.mlid, mld,
    ForestCleared(build.rfbc, build.mlid), <<>>)

\* the share of worker 0: floor(N/T) + (N mod T)
ShareOfWorkerZero ==
  (build.rfbc.number_of_trees \div build.rfbc.number_of_threads)
    + (build.rfbc.number_of_trees % build.rfbc.number_of_threads)

\* worker 0 of a build by two or more threads has returned with its share
WorkerZeroDone ==
  /\ build.rfbc.number_of_threads >= 2
  /\ build.thread_config # <<>>
  /\ build.thread_config[1].returned
  /\ Len(build.thread_config[1].trees) = ShareOfWorkerZero

\* the roots of the trees, and their names, in order
RootsOf(trees) == [i \in DOMAIN trees |-> trees[i].root]
NamesOf(trees) == [i \in DOMAIN trees |-> trees[i].name]

\* C30 as the claim states it: in a build by T >= 2 threads the trees and the
\* out-of-bag sets of worker 0 are identical, in order, to the first
\* floor(N/T) + (N mod T) trees and out-of-bag sets of the single-threaded
\* build of the same dataset, seed and configuration
C30_WorkerZeroTreesIdentical ==
  WorkerZeroDone
    => /\ Len(SingleThreadedBuildOfSame.trees) >= ShareOfWorkerZero
       /\ build.thread_config[1].trees
            = SubSeq(SingleThreadedBuildOfSame.trees, 1, ShareOfWorkerZero)
       /\ build.thread_config[1].oobs
            = SubSeq(SingleThreadedBuildOfSame.oobs, 1, ShareOfWorkerZero)

\* C30, amended: in a build by T >= 2 threads the trees of worker 0 have, in
\* order, the nodes of the first floor(N/T) + (N mod T) trees of the
\* single-threaded build of the same dataset, seed and configuration, and
\* its out-of-bag sets and the samples they were drawn with are the same;
\* the trees differ in their name alone, which is "[thread 0]" for the
\* worker's and empty for the single-threaded builder's.  Worker i draws
\* from a generator of its own, seeded with seed + i
C30_WorkerZeroIsSingleThreadedPrefix ==
  /\ WorkerZeroDone
       => /\ Len(SingleThreadedBuildOfSame.trees) >= ShareOfWorkerZero
          /\ RootsOf(build.thread_config[1].trees)
               = RootsOf(SubSeq(SingleThreadedBuildOfSame.trees, 1, ShareOfWorkerZero))
          /\ build.thread_config[1].oobs
               = SubSeq(SingleThreadedBuildOfSame.oobs, 1, ShareOfWorkerZero)
          /\ build.thread_config[1].samples
               = SubSeq(SingleThreadedBuildOfSame.samples, 1, ShareOfWorkerZero)
          /\ Range(NamesOf(build.thread_config[1].trees)) = { "[thread 0]" }
          /\ Range(NamesOf(SingleThreadedBuildOfSame.trees)) = { "" }
  /\ \A t \in DOMAIN build.thread_config :
       /\ build.thread_config[t].dtbc.rng_config.seed = build.rfbc.seed + t - 1
       /\ Range(NamesOf(build.thread_config[t].trees))
            \subseteq { thread_name(t - 1) }

\* two threads built three trees, each node considering one drawn feature;
\* worker 0 built two different trees from different samples, its generator
\* drawn from for the samples and for the features as well, and the tree of
\* worker 1 came from another sample than the third tree of the
\* single-threaded build; the trees carry the names of their threads and
\* those of the single-threaded build none
C30_Witness ==
  /\ ret = [op |-> "rf_build", ok |-> TRUE]
  /\ WorkerZeroDone
  /\ build.rfbc.number_of_threads = 2 /\ build.rfbc.number_of_trees = 3
  /\ build.rfbc.features_to_consider_per_node = 1
  /\ Len(build.thread_config[1].trees) = 2
  /\ build.thread_config[1].samples[1] # build.thread_config[1].samples[2]
  /\ build.thread_config[2].samples[1] # SingleThreadedBuildOfSame.samples[3]
  /\ build.thread_config[1].trees[1] # build.thread_config[1].trees[2]
  /\ build.thread_config[1].dtbc.rng_config.draws > 2 * Len(mld)
  /\ build.thread_config[1].trees[1].name = "[thread 0]"
  /\ build.thread_config[2].trees[1].name = "[thread 1]"
  /\ SingleThreadedBuildOfSame.trees[1].name = ""

\* --- persistence properties
\* what the serialized form is to keep of a node: its type, feature index,
\* feature kind and value, and of a Split the operators and the children
RECURSIVE Kept(_)
Kept(node) ==
  IF node = NullNode THEN NullNode
  ELSE IF node.node_type = "leaf"
  THEN [node_type |-> "leaf", feature_index |-> node.feature_index,
        feature_type |-> node.feature_type, feature_value |-> node.feature_value]
  ELSE [node_type |-> "split", feature_index |-> node.feature_index,
        feature_type |-> node.feature_type, feature_value |-> node.feature_value,
        split_left_op |-> node.split_left_op,
        split_right_op |-> node.split_right_op,
        split_left_node |-> Kept(node.split_left_node),
        split_right_node |-> Kept(node.split_right_node)]

\* the nodes below and at node in pre-order: the node, its left subtree, its
\* right subtree
RECURSIVE PreOrder(_)
PreOrder(node) ==
  IF node = NullNode THEN <<>>
  ELSE <<node>> \o PreOrder(node.split_left_node) \o PreOrder(node.split_right_node)

\* the tree can be saved
CanBeSaved(t) == t.mlid_ # <<>> /\ t.root_ # NullNode

\* the serialized node n carries the id k of the k-th node of the pre-order
\* walk pre (counted from 0), and the ids of its children are those of the
\* node's children in that walk and larger than k
NumberedInPreOrder(n, k, pre) ==
  /\ AsUnsigned(n.nt) = (IF pre[k + 1].node_type = "split" THEN 0 ELSE 1)
  /\ AsUnsigned(n.fi) = pre[k + 1].feature_index
  /\ ("lid" \in DOMAIN n) = (pre[k + 1].split_left_node # NullNode)
  /\ ("rid" \in DOMAIN n) = (pre[k + 1].split_right_node # NullNode)
  /\ "lid" \in DOMAIN n
       => /\ AsUnsigned(n.lid) > k /\ AsUnsigned(n.lid) < Len(pre)
          /\ pre[AsUnsigned(n.lid) + 1] = pre[k + 1].split_left_node
  /\ "rid" \in DOMAIN n
       => /\ AsUnsigned(n.rid) > k /\ AsUnsigned(n.rid) < Len(pre)
          /\ pre[AsUnsigned(n.rid) + 1] = pre[k + 1].split_right_node

IdsInPreOrder(nodes, pre) ==
  /\ Len(nodes) = Len(pre)
  /\ \A i, j \in DOMAIN nodes : nodes[i].id = nodes[j].id => i = j
  /\ { AsUnsigned(nodes[i].id) : i \in DOMAIN nodes } = 0..(Len(pre) - 1)
  /\ \A i \in DOMAIN nodes : NumberedInPreOrder(nodes[i], AsUnsigned(nodes[i].id), pre)

\* the tree objects a saved tree is restored into: the one it was saved from
\* and a default-constructed one
RestoredInto(t) == { t, decision_tree(<<>>, 0, 0, 0, 0, ML_DEFAULT_SEED, FALSE, "classification") }

\* restoring the files of t with their nodes in the given order gives t's
\* nodes and counts again
RestoresTo(t, files, kept, order, into) ==
  LET r == restore(FilesPresented(files, order), into)
  IN  /\ r.ok
      /\ Kept(r.tree.root_) = kept
      /\ r.tree.nodes_ = t.nodes_
      /\ r.tree.leaves_ = t.leaves_

\* the files save writes for a single tree into a directory it could make
SavedFiles(t) == save(t, FALSE, TRUE, NoFiles).files

\* C27: serializing a trained tree numbers its nodes in pre-order from 0 at
\* the root, the ids unique and every child's id larger than its parent's;
\* rebuilding the tree from the serialized nodes in any order gives the same
\* shape, node types, feature indices, feature kinds, values, operators and
\* child links, and the same node and leaf counts
C27_RestoreRebuildsTheSavedTree ==
  (Running /\ CanBeSaved(tree))
    => /\ IdsInPreOrder(SavedFiles(tree).json_object.nodes, PreOrder(tree.root_))
       /\ \A order \in Orders(Len(SavedFiles(tree).json_object.nodes)),
             into \in RestoredInto(tree) :
            RestoresTo(tree, SavedFiles(tree), Kept(tree.root_), order, into)

\* the first half of C27 alone: the ids save writes are those of the
\* pre-order walk
SavedIdsInPreOrder ==
  (Running /\ CanBeSaved(tree))
    => IdsInPreOrder(SavedFiles(tree).json_object.nodes, PreOrder(tree.root_))

\* the files save writes, with keep_instances_at_leaf_nodes written as the
\* number 0 or 1 in place of the boolean
WithNumberForBoolean(files) ==
  [files EXCEPT !.json_object.keep_instances_at_leaf_nodes =
                  JsonUnsigned(IF @.boolean THEN 1 ELSE 0)]

\* the second half of C27 for the files so rewritten: the nodes restore in
\* every order to the tree they were written from, and no restore of a
\* directory save wrote returns true
NodesRestoreInAnyOrder ==
  /\ (Running /\ CanBeSaved(tree))
       => \A order \in Orders(Len(SavedFiles(tree).json_object.nodes)),
             into \in RestoredInto(tree) :
            RestoresTo(tree, WithNumberForBoolean(SavedFiles(tree)),
                       Kept(tree.root_), order, into)
  /\ (ret.op = "restore" /\ ret.ok) => model_dir \in ForeignFiles
====
